----------------------------- MODULE TxSetProofs ------------------------------
(* What RootParent and Reachable of TxSet compute, for transaction sets of    *)
(* any size and links and parents of any shape.                               *)
EXTENDS TxSet, SequenceTheorems, SetInduction

-----------------------------------------------------------------------------
(* RootParent *)

\* A session that UniqueRootParents leaves out.
Excluded(ts, includeSession, v) == ~includeSession /\ ts[v].type = "Session"

\* Where the search ends although there are steps left.
AtRoot(ts, includeSession, v) ==
  \/ ts[v].parent = 0
  \/ ~Found(ts, ts[v].parent)
  \/ Excluded(ts, includeSession, ts[v].parent)

\* f tells what is found from v with a number of steps left.
Searches(f, ts, includeSession) ==
  /\ \A v : RootParent(ts, v, includeSession) = f[MaxDepth][v]
  /\ \A left \in 0..MaxDepth : \A v \in DOMAIN ts :
       f[left][v] = IF Excluded(ts, includeSession, v) THEN 0
                    ELSE IF AtRoot(ts, includeSession, v) \/ left = 0 THEN v
                    ELSE f[left - 1][ts[v].parent]

\* The recursion of RootParent has a solution, so RootParent is one.
LEMMA RootParentSearches ==
  ASSUME NEW ts, NEW includeSession
  PROVE  \E f : Searches(f, ts, includeSession)
<1> DEFINE excluded(v) == ~includeSession /\ ts[v].type = "Session"
           Body(f) ==
             [left \in 0..MaxDepth |-> [v \in DOMAIN ts |->
                IF excluded(v) THEN 0
                ELSE IF \/ ts[v].parent = 0
                        \/ left = 0
                        \/ ~Found(ts, ts[v].parent)
                        \/ excluded(ts[v].parent)
                THEN v
                ELSE f[left - 1][ts[v].parent]]]
           S == [DOMAIN ts -> {0} \cup DOMAIN ts]
<1>1. \E f : f = Body(f)
  <2> DEFINE start == [v \in DOMAIN ts |-> IF excluded(v) THEN 0 ELSE v]
             up(h) == [v \in DOMAIN ts |->
                         IF excluded(v) THEN 0
                         ELSE IF \/ ts[v].parent = 0
                                 \/ ~Found(ts, ts[v].parent)
                                 \/ excluded(ts[v].parent)
                         THEN v ELSE h[ts[v].parent]]
             step == [i \in 1..MaxDepth |-> [h \in S |-> up(h)]]
  <2>1. start \in S /\ \A h \in S : up(h) \in S
    BY DEF Found
  <2>2. step \in [1..MaxDepth -> [S -> S]]
    <3> HIDE DEF S, up
    <3>1. [h \in S |-> up(h)] \in [S -> S]
      BY <2>1
    <3> QED BY <3>1
  <2>3. PICK f : Computes(f, MaxDepth, S, start, step)
    <3>1. start \in S
      BY <2>1
    <3> HIDE DEF start, S, step
    <3> QED BY <2>2, <3>1, Recursion, MaxDepthAssumption
  <2>4. \A i \in 1..MaxDepth : f[i] = up(f[i - 1])
    <3> HIDE DEF S, up
    <3>1. \A i \in 1..MaxDepth : i - 1 \in 0..MaxDepth
      BY MaxDepthAssumption
    <3>2. \A i \in 1..MaxDepth : f[i - 1] \in S /\ f[i] = step[i][f[i - 1]]
      BY <2>3, <3>1 DEF Computes
    <3> QED BY <3>2
  <2>5. ASSUME NEW left \in 0..MaxDepth
        PROVE  f[left] = Body(f)[left]
    <3>1. CASE left = 0
      BY <3>1, <2>3 DEF Computes
    <3>2. CASE left # 0
      <4>1. left \in 1..MaxDepth
        BY <3>2, MaxDepthAssumption
      <4>2. f[left] = up(f[left - 1])
        BY <4>1, <2>4
      <4> QED BY <4>2, <3>2
    <3> QED BY <3>1, <3>2
  <2>6. DOMAIN f = 0..MaxDepth /\ DOMAIN Body(f) = 0..MaxDepth
    BY <2>3 DEF Computes
  <2>7. f = Body(f)
    <3> HIDE DEF start, S, step
    <3> QED BY <2>3, <2>5, <2>6 DEF Computes
  <2> QED BY <2>7
<1> DEFINE c == CHOOSE f : f = Body(f)
<1>2. \A v : RootParent(ts, v, includeSession) = c[MaxDepth][v]
  BY DEF RootParent
<1>3. c = Body(c)
  <2> HIDE DEF Body, S
  <2> QED BY <1>1
<1> HIDE DEF c
<1>4. \A left \in 0..MaxDepth : \A v \in DOMAIN ts :
        c[left][v] = IF Excluded(ts, includeSession, v) THEN 0
                     ELSE IF AtRoot(ts, includeSession, v) \/ left = 0 THEN v
                     ELSE c[left - 1][ts[v].parent]
  <2>1. \A left \in 0..MaxDepth : c[left] = Body(c)[left]
    BY <1>3
  <2> TAKE left \in 0..MaxDepth
  <2>2. c[left] = [v \in DOMAIN ts |->
                     IF excluded(v) THEN 0
                     ELSE IF \/ ts[v].parent = 0
                             \/ left = 0
                             \/ ~Found(ts, ts[v].parent)
                             \/ excluded(ts[v].parent)
                     THEN v
                     ELSE c[left - 1][ts[v].parent]]
    BY <2>1
  <2> QED BY <2>2 DEF Excluded, AtRoot
<1> QED BY <1>2, <1>4 DEF Searches

\* What is found from a transaction is nil exactly when that is a session that is left
\* out; anything else that is found is in the set and is no such session.
LEMMA RootParentIsRoot ==
  ASSUME NEW ts, 0 \notin DOMAIN ts, NEW includeSession, NEW v \in DOMAIN ts,
         NEW r, r = RootParent(ts, v, includeSession)
  PROVE  /\ r = 0 <=> Excluded(ts, includeSession, v)
         /\ r # 0 => r \in DOMAIN ts /\ ~Excluded(ts, includeSession, r)
<1>1. PICK f : Searches(f, ts, includeSession)
  BY RootParentSearches
<1> DEFINE Right(w, q) == /\ q = 0 <=> Excluded(ts, includeSession, w)
                          /\ q # 0 => q \in DOMAIN ts /\ ~Excluded(ts, includeSession, q)
           T == {left \in 0..MaxDepth : \A w \in DOMAIN ts : Right(w, f[left][w])}
<1>2. 0 \in T
  BY <1>1, MaxDepthAssumption DEF Searches
<1>3. ASSUME NEW left \in 0..MaxDepth, left \in T, left < MaxDepth
      PROVE  left + 1 \in T
  <2>1. left + 1 \in 0..MaxDepth /\ left + 1 # 0 /\ (left + 1) - 1 = left
    BY <1>3, MaxDepthAssumption
  <2>2. ASSUME NEW w \in DOMAIN ts
        PROVE  Right(w, f[left + 1][w])
    <3>1. f[left + 1][w] = IF Excluded(ts, includeSession, w) THEN 0
                           ELSE IF AtRoot(ts, includeSession, w) THEN w
                           ELSE f[left][ts[w].parent]
      BY <1>1, <2>1 DEF Searches
    <3>2. CASE Excluded(ts, includeSession, w) \/ AtRoot(ts, includeSession, w)
      BY <3>1, <3>2
    <3>3. CASE ~Excluded(ts, includeSession, w) /\ ~AtRoot(ts, includeSession, w)
      <4>1. /\ ts[w].parent \in DOMAIN ts
            /\ ~Excluded(ts, includeSession, ts[w].parent)
        BY <3>3 DEF AtRoot, Found
      <4>2. Right(ts[w].parent, f[left][ts[w].parent])
        BY <1>3, <4>1
      <4> QED BY <3>1, <3>3, <4>1, <4>2
    <3> QED BY <3>2, <3>3
  <2> QED BY <2>1, <2>2
<1>4. MaxDepth \in T
  <2> HIDE DEF T
  <2>1. 0..MaxDepth \subseteq T
    BY <1>2, <1>3, UpTo, MaxDepthAssumption
  <2> QED BY <2>1, MaxDepthAssumption
<1> QED BY <1>1, <1>4 DEF Searches

-----------------------------------------------------------------------------
(* Reachable *)

\* The children that are present.
Below(ts) == [w \in DOMAIN ts |-> Children(ts, w) \cap DOMAIN ts]

\* What is reachable is the closure of the links.
LEMMA ReachableIsClosure ==
  ASSUME NEW ts, IsFiniteSet(DOMAIN ts), NEW v \in DOMAIN ts
  PROVE  Closure(Reachable(ts, v), DOMAIN ts, {v}, Below(ts))
<1> DEFINE n == Cardinality(DOMAIN ts)
           S == SUBSET DOMAIN ts
           More(R) == R \cup ((UNION {Children(ts, w) : w \in R}) \cap DOMAIN ts)
           Body(f) == [i \in 0..n |-> IF i = 0 THEN {v} ELSE
                         f[i - 1] \cup ((UNION {Children(ts, w) : w \in f[i - 1]}) \cap DOMAIN ts)]
<1>1. n \in Nat
  BY FS_CardinalityType
<1>2. \E f : f = Body(f)
  <2> DEFINE start == {v}
             step == [i \in 1..n |-> [R \in S |-> More(R)]]
  <2>1. start \in S /\ \A R \in S : More(R) \in S
    <3>1. ASSUME NEW R \in SUBSET DOMAIN ts
          PROVE  More(R) \subseteq DOMAIN ts
      OBVIOUS
    <3> QED BY <3>1
  <2>2. step \in [1..n -> [S -> S]]
    <3> HIDE DEF S, More, n
    <3>1. [R \in S |-> More(R)] \in [S -> S]
      BY <2>1
    <3> QED BY <3>1
  <2>3. PICK f : Computes(f, n, S, start, step)
    <3>1. start \in S
      BY <2>1
    <3> HIDE DEF start, S, step, n
    <3> QED BY <1>1, <2>2, <3>1, Recursion
  <2>4. \A i \in 1..n : f[i] = More(f[i - 1])
    <3> HIDE DEF S, More, n
    <3>1. \A i \in 1..n : i - 1 \in 0..n
      BY <1>1
    <3>2. \A i \in 1..n : f[i - 1] \in S /\ f[i] = step[i][f[i - 1]]
      BY <2>3, <3>1 DEF Computes
    <3> QED BY <3>2
  <2> HIDE DEF step, S, n
  <2>5. DOMAIN f = 0..n /\ f = [i \in 0..n |-> f[i]] /\ f[0] = {v}
    BY <2>3 DEF Computes
  <2>6. \A i \in 0..n : i # 0 => i \in 1..n
    BY <1>1
  <2>7. f = Body(f)
    BY <2>4, <2>5, <2>6
  <2> QED BY <2>7
<1> DEFINE c == CHOOSE f : f = Body(f)
<1>3. Reachable(ts, v) = c[n]
  BY DEF Reachable
<1>4. c = Body(c)
  <2> HIDE DEF Body
  <2> QED BY <1>2
<1>5. Rounds(c, DOMAIN ts, {v}, Below(ts))
  <2> HIDE DEF c
  <2>1. c[0] = {v}
    BY <1>1, <1>4
  <2>2. ASSUME NEW i \in 1..n, c[i - 1] \subseteq DOMAIN ts
        PROVE  c[i] = c[i - 1] \cup UNION {Below(ts)[w] : w \in c[i - 1]}
    <3>1. i \in 0..n /\ i # 0
      BY <1>1
    <3>2. c[i] = c[i - 1] \cup ((UNION {Children(ts, w) : w \in c[i - 1]}) \cap DOMAIN ts)
      <4> HIDE DEF n
      <4> QED BY <1>4, <3>1
    <3>3. \A w \in c[i - 1] : Below(ts)[w] = Children(ts, w) \cap DOMAIN ts
      BY <2>2 DEF Below
    <3>4. (UNION {Children(ts, w) : w \in c[i - 1]}) \cap DOMAIN ts
            = UNION {Below(ts)[w] : w \in c[i - 1]}
      BY <3>3
    <3> QED BY <3>2, <3>4
  <2> QED BY <2>1, <2>2 DEF Rounds
<1>6. Below(ts) \in [DOMAIN ts -> SUBSET DOMAIN ts]
  BY DEF Below
<1> HIDE DEF c
<1> QED BY <1>3, <1>5, <1>6, RoundsClose

\* Where Begin and Link records agree, a transaction is reachable from what RootParent
\* finds from it.
LEMMA FoundAbove ==
  ASSUME NEW ts, IsFiniteSet(DOMAIN ts), 0 \notin DOMAIN ts, LinksMirrorParents(ts),
         NEW includeSession, NEW v \in DOMAIN ts,
         NEW r, r = RootParent(ts, v, includeSession), r # 0
  PROVE  r \in DOMAIN ts /\ v \in Reachable(ts, r)
<1>1. PICK f : Searches(f, ts, includeSession)
  BY RootParentSearches
<1> DEFINE Right(w, q) == q # 0 => q \in DOMAIN ts /\ w \in Reachable(ts, q)
           T == {left \in 0..MaxDepth : \A w \in DOMAIN ts : Right(w, f[left][w])}
<1>2. ASSUME NEW w \in DOMAIN ts
      PROVE  w \in Reachable(ts, w)
  BY ReachableIsClosure DEF Closure
<1>3. 0 \in T
  BY <1>1, <1>2, MaxDepthAssumption DEF Searches
<1>4. ASSUME NEW left \in 0..MaxDepth, left \in T, left < MaxDepth
      PROVE  left + 1 \in T
  <2>1. left + 1 \in 0..MaxDepth /\ left + 1 # 0 /\ (left + 1) - 1 = left
    BY <1>4, MaxDepthAssumption
  <2>2. ASSUME NEW w \in DOMAIN ts
        PROVE  Right(w, f[left + 1][w])
    <3> DEFINE p == ts[w].parent
               q == f[left][p]
    <3>1. f[left + 1][w] = IF Excluded(ts, includeSession, w) THEN 0
                           ELSE IF AtRoot(ts, includeSession, w) THEN w ELSE q
      BY <1>1, <2>1 DEF Searches
    <3>2. CASE Excluded(ts, includeSession, w) \/ AtRoot(ts, includeSession, w)
      BY <1>2, <3>1, <3>2
    <3>3. CASE ~Excluded(ts, includeSession, w) /\ ~AtRoot(ts, includeSession, w)
      <4>1. p \in DOMAIN ts /\ f[left + 1][w] = q
        BY <3>1, <3>3 DEF AtRoot, Found
      <4>2. Right(p, q)
        BY <1>4, <4>1
      <4>3. w \in Below(ts)[p]
        BY <4>1 DEF LinksMirrorParents, Below
      <4>4. ASSUME q # 0
            PROVE  w \in Reachable(ts, q)
        <5>1. Closure(Reachable(ts, q), DOMAIN ts, {q}, Below(ts))
          BY <4>2, <4>4, ReachableIsClosure
        <5> QED BY <4>2, <4>3, <4>4, <5>1 DEF Closure
      <4> QED BY <4>1, <4>2, <4>4
    <3> QED BY <3>2, <3>3
  <2> QED BY <2>1, <2>2
<1>5. MaxDepth \in T
  <2> HIDE DEF T
  <2>1. 0..MaxDepth \subseteq T
    BY <1>3, <1>4, UpTo, MaxDepthAssumption
  <2> QED BY <2>1, MaxDepthAssumption
<1> QED BY <1>1, <1>5 DEF Searches

-----------------------------------------------------------------------------
(* Ancestors *)

\* The parent, if it is present.
Up(ts) == [w \in DOMAIN ts |-> {ts[w].parent} \cap DOMAIN ts]

\* anc holds what is above each transaction.
AreAncestors(anc, ts) ==
  \A w \in DOMAIN ts : Closure(anc[w], DOMAIN ts, Up(ts)[w], Up(ts))

\* The parents lead to a top.
Topped(anc, w) == w \notin anc[w] /\ \A x \in anc[w] : x \notin anc[x]

\* What is above a transaction is its parent and what is above that.
LEMMA AboveParent ==
  ASSUME NEW ts, NEW anc, AreAncestors(anc, ts), NEW w \in DOMAIN ts,
         NEW p, p = ts[w].parent, p \in DOMAIN ts
  PROVE  anc[w] = {p} \cup anc[p] /\ anc[w] \subseteq DOMAIN ts
<1>1. Up(ts)[w] = {p} /\ \A x \in DOMAIN ts : Up(ts)[x] \subseteq DOMAIN ts
  BY DEF Up
<1>2. Closure(anc[w], DOMAIN ts, {p}, Up(ts)) /\ Closure(anc[p], DOMAIN ts, Up(ts)[p], Up(ts))
  BY <1>1 DEF AreAncestors
<1>3. p \in anc[w] /\ Up(ts)[p] \subseteq anc[w] /\ anc[w] \subseteq DOMAIN ts
      /\ \A x \in anc[w] : Up(ts)[x] \subseteq anc[w]
  BY <1>2 DEF Closure
<1>4. anc[p] \subseteq anc[w]
  BY <1>2, <1>3 DEF Closure
<1>5. \A x \in {p} \cup anc[p] : Up(ts)[x] \subseteq {p} \cup anc[p]
  BY <1>2 DEF Closure
<1>6. anc[w] \subseteq {p} \cup anc[p]
  BY <1>2, <1>5 DEF Closure
<1> QED BY <1>3, <1>4, <1>6

\* One less is above the parent of a transaction that has a top, and it has a top too.
LEMMA ToppedParent ==
  ASSUME NEW ts, IsFiniteSet(DOMAIN ts), NEW anc, AreAncestors(anc, ts),
         NEW w \in DOMAIN ts, Topped(anc, w), NEW p, p = ts[w].parent, p \in DOMAIN ts
  PROVE  /\ Topped(anc, p)
         /\ Cardinality(anc[p]) \in Nat
         /\ Cardinality(anc[w]) = Cardinality(anc[p]) + 1
<1>1. anc[w] = {p} \cup anc[p] /\ anc[w] \subseteq DOMAIN ts
  BY AboveParent
<1>2. Topped(anc, p) /\ p \notin anc[p]
  BY <1>1 DEF Topped
<1>3. IsFiniteSet(anc[p])
  BY <1>1, FS_Subset
<1>4. Cardinality(anc[p]) \in Nat /\ Cardinality(anc[p] \cup {p}) = Cardinality(anc[p]) + 1
  BY <1>2, <1>3, FS_CardinalityType, FS_AddElement
<1>5. anc[p] \cup {p} = anc[w]
  BY <1>1
<1> QED BY <1>2, <1>4, <1>5

\* With as many steps as there are ancestors the search ends at a root, and more steps
\* change nothing.
LEMMA SearchSettles ==
  ASSUME NEW ts, IsFiniteSet(DOMAIN ts), 0 \notin DOMAIN ts,
         NEW anc, AreAncestors(anc, ts), NEW includeSession,
         NEW f, Searches(f, ts, includeSession),
         NEW w \in DOMAIN ts, Topped(anc, w),
         NEW k \in 0..MaxDepth, Cardinality(anc[w]) <= k
  PROVE  /\ f[k][w] = f[MaxDepth][w]
         /\ f[k][w] # 0 => AtRoot(ts, includeSession, f[k][w])
<1> DEFINE Settled(x, i) == /\ \A j \in i..MaxDepth : f[j][x] = f[i][x]
                            /\ f[i][x] # 0 => AtRoot(ts, includeSession, f[i][x])
           T == {i \in 0..MaxDepth : \A x \in DOMAIN ts :
                   Topped(anc, x) /\ Cardinality(anc[x]) <= i => Settled(x, i)}
<1>1. ASSUME NEW x \in DOMAIN ts, NEW i \in 0..MaxDepth,
             Excluded(ts, includeSession, x) \/ AtRoot(ts, includeSession, x)
      PROVE  Settled(x, i)
  <2>1. \A j \in 0..MaxDepth : f[j][x] = IF Excluded(ts, includeSession, x) THEN 0 ELSE x
    BY <1>1 DEF Searches
  <2>2. i..MaxDepth \subseteq 0..MaxDepth
    BY MaxDepthAssumption
  <2>3. f[i][x] # 0 => AtRoot(ts, includeSession, f[i][x])
    BY <1>1, <2>1
  <2> QED BY <2>1, <2>2, <2>3
<1>2. ASSUME NEW x \in DOMAIN ts, Topped(anc, x), ~AtRoot(ts, includeSession, x)
      PROVE  /\ ts[x].parent \in DOMAIN ts /\ Topped(anc, ts[x].parent)
             /\ Cardinality(anc[ts[x].parent]) \in Nat
             /\ Cardinality(anc[x]) = Cardinality(anc[ts[x].parent]) + 1
  <2>1. ts[x].parent \in DOMAIN ts
    BY <1>2 DEF AtRoot, Found
  <2> QED BY <1>2, <2>1, ToppedParent
<1>3. 0 \in T
  <2>1. ASSUME NEW x \in DOMAIN ts, Topped(anc, x), Cardinality(anc[x]) <= 0
        PROVE  Settled(x, 0)
    <3>1. AtRoot(ts, includeSession, x)
      BY <1>2, <2>1
    <3>2. 0 \in 0..MaxDepth
      BY MaxDepthAssumption
    <3> HIDE DEF Settled
    <3> QED BY <1>1, <3>1, <3>2
  <2> HIDE DEF Settled
  <2> QED BY <2>1, MaxDepthAssumption
<1>4. ASSUME NEW i \in 0..MaxDepth, i \in T, i < MaxDepth
      PROVE  i + 1 \in T
  <2>1. i + 1 \in 0..MaxDepth
    BY <1>4, MaxDepthAssumption
  <2>2. ASSUME NEW x \in DOMAIN ts, Topped(anc, x), Cardinality(anc[x]) <= i + 1
        PROVE  Settled(x, i + 1)
    <3> DEFINE p == ts[x].parent
    <3>1. CASE Excluded(ts, includeSession, x) \/ AtRoot(ts, includeSession, x)
      <4> HIDE DEF Settled
      <4> QED BY <1>1, <2>1, <3>1
    <3>2. CASE ~Excluded(ts, includeSession, x) /\ ~AtRoot(ts, includeSession, x)
      <4>1. p \in DOMAIN ts /\ Topped(anc, p) /\ Cardinality(anc[p]) \in Nat
            /\ Cardinality(anc[x]) = Cardinality(anc[p]) + 1
        BY <1>2, <2>2, <3>2
      <4>2. Cardinality(anc[p]) <= i
        BY <2>2, <4>1
      <4>3. Settled(p, i)
        BY <1>4, <4>1, <4>2
      <4>4. ASSUME NEW j \in (i + 1)..MaxDepth
            PROVE  f[j][x] = f[i][p]
        <5>1. j \in 0..MaxDepth /\ j # 0 /\ j - 1 \in i..MaxDepth
          BY MaxDepthAssumption
        <5>2. f[j][x] = f[j - 1][p]
          BY <3>2, <5>1 DEF Searches
        <5> QED BY <4>3, <5>1, <5>2
      <4>5. i + 1 \in (i + 1)..MaxDepth
        BY <2>1
      <4>6. f[i + 1][x] = f[i][p]
        BY <4>4, <4>5
      <4> QED BY <4>3, <4>4, <4>6
    <3> QED BY <3>1, <3>2
  <2> HIDE DEF Settled
  <2> QED BY <2>1, <2>2
<1>5. k \in T
  <2> HIDE DEF T
  <2>1. 0..MaxDepth \subseteq T
    BY <1>3, <1>4, UpTo, MaxDepthAssumption
  <2> QED BY <2>1
<1>6. MaxDepth \in k..MaxDepth
  BY MaxDepthAssumption
<1> QED BY <1>5, <1>6

\* What RootParent finds is a root when the transaction has a top within MaxDepth, and
\* the same as what it finds from the parent.
LEMMA RootParentOfTopped ==
  ASSUME NEW ts, IsFiniteSet(DOMAIN ts), 0 \notin DOMAIN ts,
         NEW anc, AreAncestors(anc, ts), NEW includeSession,
         NEW w \in DOMAIN ts, Topped(anc, w), Cardinality(anc[w]) <= MaxDepth
  PROVE  LET r == RootParent(ts, w, includeSession)
         IN  /\ r # 0 => AtRoot(ts, includeSession, r)
             /\ ~Excluded(ts, includeSession, w) /\ ~AtRoot(ts, includeSession, w)
                => r = RootParent(ts, ts[w].parent, includeSession)
             /\ ~Excluded(ts, includeSession, w) /\ AtRoot(ts, includeSession, w) => r = w
<1>1. PICK f : Searches(f, ts, includeSession)
  BY RootParentSearches
<1>2. MaxDepth \in 0..MaxDepth /\ MaxDepth \in Nat
  BY MaxDepthAssumption
<1>3. f[MaxDepth][w] # 0 => AtRoot(ts, includeSession, f[MaxDepth][w])
  BY <1>1, <1>2, SearchSettles
<1>4. ASSUME ~Excluded(ts, includeSession, w), ~AtRoot(ts, includeSession, w)
      PROVE  f[MaxDepth][w] = f[MaxDepth][ts[w].parent]
  <2> DEFINE p == ts[w].parent
  <2>1. p \in DOMAIN ts
    BY <1>4 DEF AtRoot, Found
  <2>2. Topped(anc, p) /\ Cardinality(anc[p]) \in Nat
        /\ Cardinality(anc[w]) = Cardinality(anc[p]) + 1
    BY <2>1, ToppedParent
  <2>3. MaxDepth # 0 /\ MaxDepth - 1 \in 0..MaxDepth /\ Cardinality(anc[p]) <= MaxDepth - 1
    BY <1>2, <2>2
  <2>4. f[MaxDepth][w] = f[MaxDepth - 1][p]
    BY <1>1, <1>2, <1>4, <2>3 DEF Searches
  <2>5. f[MaxDepth - 1][p] = f[MaxDepth][p]
    BY <1>1, <2>1, <2>2, <2>3, SearchSettles
  <2> QED BY <2>4, <2>5
<1>5. ~Excluded(ts, includeSession, w) /\ AtRoot(ts, includeSession, w) => f[MaxDepth][w] = w
  BY <1>1, <1>2 DEF Searches
<1> QED BY <1>1, <1>3, <1>4, <1>5 DEF Searches

\* All that is reachable from a root has that root.
LEMMA RootOfReachable ==
  ASSUME NEW ts, IsFiniteSet(DOMAIN ts), 0 \notin DOMAIN ts,
         LinksMirrorParents(ts), SessionsOnTop(ts),
         NEW anc, AreAncestors(anc, ts),
         \A w \in DOMAIN ts : Topped(anc, w) /\ Cardinality(anc[w]) <= MaxDepth,
         NEW includeSession, NEW v \in DOMAIN ts,
         NEW r, r = RootParent(ts, v, includeSession), r # 0
  PROVE  \A w \in Reachable(ts, r) : RootParent(ts, w, includeSession) = r
<1>1. r \in DOMAIN ts /\ ~Excluded(ts, includeSession, r)
  BY RootParentIsRoot
<1>2. AtRoot(ts, includeSession, r)
  BY RootParentOfTopped
<1>3. RootParent(ts, r, includeSession) = r
  BY <1>1, <1>2, RootParentOfTopped
<1> DEFINE X == {w \in DOMAIN ts : RootParent(ts, w, includeSession) = r}
<1>4. ASSUME NEW w \in X, NEW x \in Below(ts)[w]
      PROVE  x \in X
  <2>1. w \in DOMAIN ts /\ x \in DOMAIN ts /\ ts[x].parent = w
    BY DEF Below, LinksMirrorParents
  <2>2. ~Excluded(ts, includeSession, w)
    BY <1>4, <2>1, RootParentIsRoot
  <2>3. ~Excluded(ts, includeSession, x)
    BY <2>1 DEF SessionsOnTop, Excluded
  <2>4. ~AtRoot(ts, includeSession, x)
    BY <2>1, <2>2 DEF AtRoot, Found
  <2>5. RootParent(ts, x, includeSession) = RootParent(ts, w, includeSession)
    BY <2>1, <2>3, <2>4, RootParentOfTopped
  <2> QED BY <2>1, <2>5
<1>5. Closure(Reachable(ts, r), DOMAIN ts, {r}, Below(ts))
  BY <1>1, ReachableIsClosure
<1>6. {r} \subseteq X /\ \A w \in X \cap DOMAIN ts : Below(ts)[w] \subseteq X
  BY <1>1, <1>3, <1>4
<1>7. Reachable(ts, r) \subseteq X
  <2> HIDE DEF X
  <2> QED BY <1>5, <1>6 DEF Closure
<1> QED BY <1>7

-----------------------------------------------------------------------------
(* Sorted *)

\* Sorted is a sequence of all the elements of a finite set, each of them once: each has
\* a rank of its own.
LEMMA SortedHasAll ==
  ASSUME NEW S \in SUBSET Nat, IsFiniteSet(S)
  PROVE  /\ Sorted(S) \in Seq(S) /\ {Sorted(S)[i] : i \in DOMAIN Sorted(S)} = S
         /\ \A i, j \in DOMAIN Sorted(S) : Sorted(S)[i] = Sorted(S)[j] => i = j
<1> DEFINE n == Cardinality(S)
           Smaller(v) == {w \in S : w < v}
           rank == [v \in S |-> Cardinality(Smaller(v)) + 1]
<1>1. n \in Nat
  BY FS_CardinalityType
<1>2. ASSUME NEW v \in S
      PROVE  Cardinality(Smaller(v)) \in 0..(n - 1)
  <2>1. Smaller(v) \in SUBSET (S \ {v}) /\ IsFiniteSet(S \ {v}) /\ Cardinality(S \ {v}) = n - 1
    BY FS_RemoveElement
  <2>2. Cardinality(Smaller(v)) <= n - 1 /\ IsFiniteSet(Smaller(v))
    BY <2>1, FS_Subset
  <2>3. Cardinality(Smaller(v)) \in Nat
    BY <2>2, FS_CardinalityType
  <2> QED BY <1>1, <2>2, <2>3
<1>3. ASSUME NEW v \in S, NEW w \in S, v < w
      PROVE  Cardinality(Smaller(v)) # Cardinality(Smaller(w))
  <2>1. ~(v < v) /\ \A x \in S : x < v => x < w
    <3>1. v \in Nat /\ w \in Nat /\ \A x \in S : x \in Nat
      OBVIOUS
    <3> QED BY <1>3, <3>1
  <2>2. Smaller(v) \in SUBSET Smaller(w) /\ v \in Smaller(w) /\ v \notin Smaller(v)
    BY <1>3, <2>1
  <2>3. IsFiniteSet(Smaller(w))
    BY FS_Subset
  <2> QED BY <2>2, <2>3, FS_Subset
<1>4. rank \in [S -> 1..n]
  <2>1. \A v \in S : Cardinality(Smaller(v)) + 1 \in 1..n
    BY <1>1, <1>2
  <2> HIDE DEF n, Smaller
  <2> QED BY <2>1
<1>5. rank \in Injection(S, 1..n)
  <2>1. ASSUME NEW v \in S, NEW w \in S, rank[v] = rank[w]
        PROVE  v = w
    <3>1. Cardinality(Smaller(v)) = Cardinality(Smaller(w))
      BY <1>2, <2>1
    <3> HIDE DEF Smaller
    <3> QED BY <1>3, <3>1
  <2> HIDE DEF rank, n
  <2> QED BY <1>4, <2>1 DEF Injection, IsInjective
<1>6. rank \in Surjection(S, 1..n)
  <2>1. IsFiniteSet(1..n) /\ Cardinality(1..n) = n
    BY <1>1, FS_Interval
  <2> HIDE DEF rank
  <2> QED BY <1>5, <2>1, FS_Injection
<1>7. ASSUME NEW i \in 1..n
      PROVE  Sorted(S)[i] \in S /\ rank[Sorted(S)[i]] = i
  <2>1. PICK v \in S : rank[v] = i
    <3> HIDE DEF rank, n
    <3> QED BY <1>6 DEF Surjection
  <2>2. Cardinality(Smaller(v)) = i - 1
    BY <1>2, <2>1
  <2>3. Sorted(S)[i] = CHOOSE x \in S : Cardinality(Smaller(x)) = i - 1
    BY DEF Sorted
  <2>4. Sorted(S)[i] \in S /\ Cardinality(Smaller(Sorted(S)[i])) = i - 1
    <3> HIDE DEF Smaller
    <3> QED BY <2>2, <2>3
  <2> QED BY <1>1, <2>4
<1>8. DOMAIN Sorted(S) = 1..n /\ Sorted(S) \in Seq(S)
  <2> DEFINE nth(i) == CHOOSE v \in S : Cardinality({w \in S : w < v}) = i - 1
  <2>1. Sorted(S) = [i \in 1..n |-> Sorted(S)[i]]
    <3>1. Sorted(S) = [i \in 1..n |-> nth(i)]
      BY DEF Sorted
    <3> HIDE DEF nth, n
    <3> QED BY <3>1
  <2>2. Sorted(S) \in [1..n -> S]
    <3> HIDE DEF n, rank
    <3> QED BY <1>7, <2>1
  <2> HIDE DEF n
  <2> QED BY <1>1, <2>2, SeqDef
<1>9. ASSUME NEW v \in S
      PROVE  \E i \in 1..n : Sorted(S)[i] = v
  <2>1. rank[v] \in 1..n
    BY <1>4
  <2>2. Sorted(S)[rank[v]] \in S /\ rank[Sorted(S)[rank[v]]] = rank[v]
    BY <1>7, <2>1
  <2> DEFINE x == Sorted(S)[rank[v]]
  <2> HIDE DEF rank, n, x
  <2>3. x = v
    <3>1. \A a, b \in S : rank[a] = rank[b] => a = b
      BY <1>5 DEF Injection, IsInjective
    <3>2. x \in S /\ rank[x] = rank[v]
      BY <2>2 DEF x
    <3> QED BY <3>1, <3>2
  <2> QED BY <2>1, <2>3 DEF x
<1> HIDE DEF n, rank
<1>10. {Sorted(S)[i] : i \in 1..n} = S
  BY <1>7, <1>9
<1>11. \A i, j \in 1..n : Sorted(S)[i] = Sorted(S)[j] => i = j
  BY <1>7
<1> QED BY <1>8, <1>10, <1>11

-----------------------------------------------------------------------------
(* Sequences of sequences *)

\* What FlattenSeq gives is put together from the front.
LEMMA FlattenedSeq ==
  ASSUME NEW S, NEW ss \in Seq(Seq(S))
  PROVE  \E f : /\ f[0] = <<>> /\ \A i \in 1..Len(ss) : f[i] = f[i - 1] \o ss[i]
                /\ \A i \in 0..Len(ss) : f[i] \in Seq(S)
                /\ FlattenSeq(ss) = f[Len(ss)]
<1> DEFINE n == Len(ss)
           step == [i \in 1..n |-> [t \in Seq(S) |-> t \o ss[i]]]
           Body(g) == [i \in 1..n |-> IF i = 1 THEN ss[i] ELSE g[i - 1] \o ss[i]]
<1>1. n \in Nat /\ \A i \in 1..n : ss[i] \in Seq(S)
  BY LenProperties, ElementOfSeq
<1>2. step \in [1..n -> [Seq(S) -> Seq(S)]]
  BY <1>1, ConcatProperties
<1>3. PICK f : Computes(f, n, Seq(S), <<>>, step)
  <2>1. <<>> \in Seq(S)
    BY EmptySeq
  <2> HIDE DEF n, step
  <2> QED BY <1>1, <1>2, <2>1, Recursion
<1>4. \A i \in 0..n : f[i] \in Seq(S)
  BY <1>3 DEF Computes
<1>5. f[0] = <<>> /\ \A i \in 1..n : f[i] = f[i - 1] \o ss[i]
  <2>1. \A i \in 1..n : i - 1 \in 0..n
    BY <1>1
  <2>2. \A i \in 1..n : f[i] = step[i][f[i - 1]]
    <3> HIDE DEF step
    <3> QED BY <1>3 DEF Computes
  <2>3. f[0] = <<>>
    BY <1>3 DEF Computes
  <2> HIDE DEF n
  <2> QED BY <1>4, <2>1, <2>2, <2>3
<1>6. CASE n = 0
  <2>1. ss = <<>> /\ FlattenSeq(ss) = ss
    BY <1>6, EmptySeq DEF FlattenSeq
  <2> QED BY <1>4, <1>5, <1>6, <2>1
<1>7. CASE n # 0
  <2> DEFINE g == CHOOSE h : h = Body(h)
             F == [i \in 1..n |-> f[i]]
  <2>1. F = Body(F)
    <3>1. \A i \in 1..n : i # 1 => i - 1 \in 1..n
      BY <1>1
    <3>2. 1 \in 1..n /\ 1 - 1 = 0 /\ <<>> \o ss[1] = ss[1]
      BY <1>1, <1>7, ConcatEmptySeq
    <3> HIDE DEF n
    <3> QED BY <1>5, <3>1, <3>2
  <2>2. g = Body(g)
    <3> HIDE DEF Body, F
    <3> QED BY <2>1
  <2>3. FlattenSeq(ss) = g[n]
    BY <1>7 DEF FlattenSeq
  <2> HIDE DEF g, F, n
  <2> DEFINE T == {0} \cup {i \in 1..n : g[i] = f[i]}
  <2>4. 0 \in T
    OBVIOUS
  <2>5. ASSUME NEW i \in 0..n, i \in T, i < n
        PROVE  i + 1 \in T
    <3>1. i + 1 \in 1..n /\ (i + 1) - 1 = i
      BY <1>1, <2>5
    <3>2. CASE i = 0
      <4>1. i + 1 = 1 /\ <<>> \o ss[1] = ss[1] /\ 1 - 1 = 0
        BY <1>1, <3>1, <3>2, ConcatEmptySeq
      <4>2. f[1] = ss[1] /\ g[1] = ss[1]
        BY <1>5, <2>2, <3>1, <4>1
      <4> QED BY <3>1, <4>1, <4>2
    <3>3. CASE i # 0
      <4>1. i + 1 # 1 /\ g[i] = f[i]
        BY <2>5, <3>3
      <4>2. g[i + 1] = g[i] \o ss[i + 1] /\ f[i + 1] = f[i] \o ss[i + 1]
        BY <1>5, <2>2, <3>1, <4>1
      <4> QED BY <3>1, <4>1, <4>2
    <3> QED BY <3>2, <3>3
  <2>6. 0..n \subseteq T
    <3> HIDE DEF T
    <3> QED BY <1>1, <2>4, <2>5, UpTo
  <2>7. n \in 0..n
    BY <1>1
  <2>8. g[n] = f[n]
    BY <1>7, <2>6, <2>7
  <2> QED BY <1>4, <1>5, <2>3, <2>8 DEF n
<1> QED BY <1>6, <1>7

\* Where the elements of the parts are in the whole, and that there is nothing else.
PartsAt(off, ss, whole) ==
  /\ off \in [1..Len(ss) -> Nat]
  /\ \A i \in 1..Len(ss) : \A j \in 1..Len(ss[i]) :
       off[i] + j \in 1..Len(whole) /\ whole[off[i] + j] = ss[i][j]
  /\ \A k \in 1..Len(whole) : \E i \in 1..Len(ss) : \E j \in 1..Len(ss[i]) :
       k = off[i] + j /\ whole[k] = ss[i][j]
  /\ Len(ss) # 0 => off[1] = 0

LEMMA FlattenedAt ==
  ASSUME NEW S, NEW ss \in Seq(Seq(S))
  PROVE  FlattenSeq(ss) \in Seq(S) /\ \E off : PartsAt(off, ss, FlattenSeq(ss))
<1> DEFINE n == Len(ss)
<1>1. n \in Nat /\ \A i \in 1..n : ss[i] \in Seq(S) /\ Len(ss[i]) \in Nat
  BY LenProperties, ElementOfSeq
<1>2. PICK f : /\ f[0] = <<>> /\ \A i \in 1..n : f[i] = f[i - 1] \o ss[i]
               /\ \A i \in 0..n : f[i] \in Seq(S)
               /\ FlattenSeq(ss) = f[n]
  BY FlattenedSeq
<1> DEFINE off == [i \in 1..n |-> Len(f[i - 1])]
           Holds(m) == /\ \A i \in 1..m : \A j \in 1..Len(ss[i]) :
                            off[i] + j \in 1..Len(f[m]) /\ f[m][off[i] + j] = ss[i][j]
                       /\ \A k \in 1..Len(f[m]) : \E i \in 1..m : \E j \in 1..Len(ss[i]) :
                            k = off[i] + j /\ f[m][k] = ss[i][j]
           T == {m \in 0..n : Holds(m)}
<1>3. \A i \in 1..n : i - 1 \in 0..n
  BY <1>1
<1>4. \A i \in 1..n : off[i] = Len(f[i - 1]) /\ off[i] \in Nat
  BY <1>2, <1>3, LenProperties
<1>5. off \in [1..n -> Nat]
  <2>1. \A i \in 1..n : Len(f[i - 1]) \in Nat
    BY <1>2, <1>3, LenProperties
  <2> HIDE DEF n
  <2> QED BY <2>1
<1> HIDE DEF off, n
<1>6. 0 \in T
  <2>1. Len(f[0]) = 0
    BY <1>2, EmptySeq
  <2>2. 1..0 = {} /\ 0 \in 0..n
    BY <1>1
  <2> QED BY <2>1, <2>2
<1>7. ASSUME NEW m \in 0..n, m \in T, m < n
      PROVE  m + 1 \in T
  <2> DEFINE p == m + 1
             a == f[m]
             b == ss[m + 1]
             c == f[m + 1]
  <2>1. p \in 1..n /\ p \in 0..n /\ p - 1 = m /\ m \in Nat
    BY <1>1, <1>7
  <2>2. /\ a \in Seq(S) /\ b \in Seq(S) /\ c = a \o b /\ off[p] = Len(a)
        /\ Len(a) \in Nat /\ Len(b) \in Nat
    BY <1>1, <1>2, <1>4, <2>1, LenProperties
  <2>3. /\ Len(c) = Len(a) + Len(b)
        /\ \A i \in 1..(Len(a) + Len(b)) : c[i] = IF i <= Len(a) THEN a[i] ELSE b[i - Len(a)]
    <3> HIDE DEF a, b, c
    <3> QED BY <2>2, ConcatProperties
  <2>4. Holds(m)
    BY <1>7
  <2>5. ASSUME NEW i \in 1..p, NEW j \in 1..Len(ss[i])
        PROVE  off[i] + j \in 1..Len(c) /\ c[off[i] + j] = ss[i][j]
    <3>1. CASE i = p
      <4>1. j \in 1..Len(b)
        BY <3>1
      <4> HIDE DEF a, b, c
      <4>2. /\ off[p] + j \in 1..(Len(a) + Len(b)) /\ ~(off[p] + j <= Len(a))
            /\ off[p] + j - Len(a) = j
        BY <2>2, <4>1
      <4>3. c[off[p] + j] = b[j]
        <5> DEFINE x == off[p] + j
        <5>1. x \in 1..(Len(a) + Len(b)) /\ ~(x <= Len(a)) /\ x - Len(a) = j
          BY <2>2, <4>1, <4>2
        <5> HIDE DEF x
        <5>2. c[x] = b[x - Len(a)]
          BY <2>3, <5>1
        <5> QED BY <5>1, <5>2 DEF x
      <4> QED BY <2>3, <3>1, <4>2, <4>3 DEF b, p
    <3>2. CASE i # p
      <4>1. i \in 1..m
        BY <2>1, <3>2
      <4>2. off[i] + j \in 1..Len(a) /\ a[off[i] + j] = ss[i][j]
        BY <2>4, <4>1
      <4>3. off[i] + j \in 1..(Len(a) + Len(b)) /\ off[i] + j <= Len(a)
        <5> DEFINE x == off[i] + j
        <5>1. x \in 1..Len(a)
          BY <4>2
        <5> HIDE DEF x, a, b
        <5>2. x \in 1..(Len(a) + Len(b)) /\ x <= Len(a)
          BY <2>2, <5>1
        <5> QED BY <5>2 DEF x
      <4> HIDE DEF a, b, c
      <4> QED BY <2>3, <4>2, <4>3
    <3> QED BY <3>1, <3>2
  <2>6. ASSUME NEW k \in 1..Len(c)
        PROVE  \E i \in 1..p : \E j \in 1..Len(ss[i]) : k = off[i] + j /\ c[k] = ss[i][j]
    <3>1. CASE k <= Len(a)
      <4>1. k \in 1..Len(a) /\ c[k] = a[k]
        <5> HIDE DEF a, b, c
        <5> QED BY <2>2, <2>3, <3>1
      <4>2. PICK i \in 1..m : \E j \in 1..Len(ss[i]) : k = off[i] + j /\ a[k] = ss[i][j]
        BY <2>4, <4>1
      <4>3. i \in 1..p
        BY <2>1
      <4> HIDE DEF a, b, c, p
      <4> QED BY <4>1, <4>2, <4>3
    <3>2. CASE ~(k <= Len(a))
      <4> DEFINE j == k - Len(a)
      <4>1. j \in 1..Len(b) /\ k = off[p] + j /\ c[k] = b[j]
        <5> HIDE DEF a, b, c
        <5> QED BY <2>2, <2>3, <3>2
      <4>2. p \in 1..p /\ b = ss[p]
        BY <2>1
      <4> HIDE DEF a, b, c, p, j
      <4> QED BY <4>1, <4>2
    <3> QED BY <3>1, <3>2
  <2> QED BY <2>1, <2>5, <2>6
<1>8. Holds(n)
  <2>1. n \in 0..n
    BY <1>1
  <2> HIDE DEF T
  <2>2. 0..n \subseteq T
    BY <1>1, <1>6, <1>7, UpTo
  <2>3. n \in T
    BY <2>1, <2>2
  <2> QED BY <2>3 DEF T
<1>9. FlattenSeq(ss) \in Seq(S)
  <2>1. n \in 0..n
    BY <1>1
  <2> QED BY <1>2, <2>1
<1>10. n # 0 => off[1] = 0
  <2>1. n # 0 => 1 \in 1..n /\ 1 - 1 = 0
    BY <1>1
  <2>2. Len(f[0]) = 0
    BY <1>2, EmptySeq
  <2> QED BY <1>4, <2>1, <2>2
<1>11. /\ \A i \in 1..n : \A j \in 1..Len(ss[i]) :
            off[i] + j \in 1..Len(FlattenSeq(ss)) /\ FlattenSeq(ss)[off[i] + j] = ss[i][j]
       /\ \A k \in 1..Len(FlattenSeq(ss)) : \E i \in 1..n : \E j \in 1..Len(ss[i]) :
            k = off[i] + j /\ FlattenSeq(ss)[k] = ss[i][j]
  BY <1>2, <1>8
<1> HIDE DEF Holds, T
<1>12. PartsAt(off, ss, FlattenSeq(ss))
  BY <1>5, <1>10, <1>11 DEF PartsAt, n
<1> QED BY <1>9, <1>12

-----------------------------------------------------------------------------
(* Trees *)

\* What is reachable is the start or below something that is.
LEMMA ReachedFromAbove ==
  ASSUME NEW ts, IsFiniteSet(DOMAIN ts), NEW v \in DOMAIN ts, NEW w \in Reachable(ts, v)
  PROVE  w \in DOMAIN ts /\ (w = v \/ \E x \in Reachable(ts, v) : w \in Below(ts)[x])
<1> DEFINE R == Reachable(ts, v)
           X == {y \in R : y = v \/ \E x \in R : y \in Below(ts)[x]}
<1>1. Closure(R, DOMAIN ts, {v}, Below(ts))
  BY ReachableIsClosure
<1>2. {v} \subseteq X /\ \A y \in X \cap DOMAIN ts : Below(ts)[y] \subseteq X
  <2> HIDE DEF R
  <2> QED BY <1>1 DEF Closure
<1>3. R \subseteq X /\ R \subseteq DOMAIN ts
  <2> HIDE DEF R, X
  <2> QED BY <1>1, <1>2 DEF Closure
<1> QED BY <1>3

\* The trees of a forest: what is below a child is below the transaction, which is not
\* below the child, and no two children have anything below them in common.
LEMMA SubtreesApart ==
  ASSUME NEW ts, IsFiniteSet(DOMAIN ts), Forest(ts), NEW v \in DOMAIN ts
  PROVE  /\ v \in Reachable(ts, v)
         /\ \A w \in Below(ts)[v] : /\ w \in DOMAIN ts /\ v \notin Reachable(ts, w)
                                    /\ Reachable(ts, w) \subseteq Reachable(ts, v)
         /\ \A w, x \in Below(ts)[v] : w # x => Reachable(ts, w) \cap Reachable(ts, x) = {}
<1> DEFINE D == DOMAIN ts
           B == Below(ts)
           R(w) == Reachable(ts, w)
<1>1. \A w \in D : Closure(R(w), D, {w}, B)
  BY ReachableIsClosure
<1>2. /\ \A w \in D : B[w] \subseteq D
      /\ \A w \in D : \A x \in B[w] : w \notin R(x)
      /\ \A w, x \in D : \A y \in B[w] : y \in B[x] => w = x
  BY DEF Forest, Below
<1>3. \A w \in D : \A x \in R(w) : x \in D /\ (x = w \/ \E y \in R(w) : x \in B[y])
  BY ReachedFromAbove
<1> HIDE DEF R, B
<1>4. v \in R(v)
  BY <1>1 DEF Closure
<1>5. ASSUME NEW w \in B[v]
      PROVE  w \in D /\ v \notin R(w) /\ R(w) \subseteq R(v)
  <2>1. w \in D /\ v \notin R(w)
    BY <1>2
  <2>2. {w} \subseteq R(v) /\ \A x \in R(v) \cap D : B[x] \subseteq R(v)
    BY <1>1, <1>4 DEF Closure
  <2>3. R(w) \subseteq R(v)
    BY <1>1, <2>1, <2>2 DEF Closure
  <2> QED BY <2>1, <2>3
<1>6. ASSUME NEW w \in B[v], NEW x \in B[v], w # x
      PROVE  R(w) \cap R(x) = {}
  <2> DEFINE X == R(w) \ R(x)
  <2>1. w \in D /\ x \in D /\ v \notin R(w) /\ v \notin R(x)
    BY <1>5
  <2>2. Closure(R(w), D, {w}, B)
    BY <1>1, <2>1
  <2>3. w \notin R(x)
    <3> SUFFICES ASSUME w \in R(x)
                 PROVE  FALSE
      OBVIOUS
    <3>1. PICK y \in R(x) : w \in B[y] /\ y \in D
      BY <1>3, <1>6, <2>1
    <3>2. y = v
      BY <1>2, <1>6, <3>1
    <3> QED BY <2>1, <3>1, <3>2
  <2>4. ASSUME NEW y \in X \cap D, NEW z \in B[y]
        PROVE  z \in X
    <3>1. z \in R(w) /\ z \in D
      BY <1>2, <2>2, <2>4 DEF Closure
    <3>2. ASSUME z \in R(x)
          PROVE  FALSE
      <4>1. CASE z = x
        <5>1. y = v
          BY <1>2, <1>6, <2>4, <4>1
        <5> QED BY <2>1, <2>4, <5>1
      <4>2. CASE z # x
        <5>1. PICK u \in R(x) : z \in B[u] /\ u \in D
          BY <1>3, <2>1, <3>2, <4>2
        <5>2. u = y
          BY <1>2, <2>4, <5>1
        <5> QED BY <2>4, <5>1, <5>2
      <4> QED BY <4>1, <4>2
    <3> QED BY <3>1, <3>2
  <2>5. {w} \subseteq X
    BY <2>2, <2>3 DEF Closure
  <2> HIDE DEF X
  <2>6. R(w) \subseteq X
    BY <2>2, <2>4, <2>5 DEF Closure
  <2> QED BY <2>6 DEF X
<1> QED BY <1>4, <1>5, <1>6 DEF R, B

\* Nothing below a root is a session, where sessions are on top.
LEMMA NoSessionBelow ==
  ASSUME NEW s, IsFiniteSet(DOMAIN s), 0 \notin DOMAIN s,
         LinksMirrorParents(s), SessionsOnTop(s),
         NEW r \in DOMAIN s, s[r].type # "Session"
  PROVE  \A w \in Reachable(s, r) : s[w].type # "Session"
<1> TAKE w \in Reachable(s, r)
<1>1. w \in DOMAIN s /\ (w = r \/ \E x \in Reachable(s, r) : w \in Below(s)[x] /\ x \in DOMAIN s)
  BY ReachedFromAbove
<1>2. ASSUME NEW x \in DOMAIN s, w \in Below(s)[x]
      PROVE  s[w].parent = x /\ x # 0
  BY <1>1, <1>2 DEF Below, LinksMirrorParents
<1> QED BY <1>1, <1>2 DEF SessionsOnTop

\* Two roots have nothing below them in common.
LEMMA RootsApart ==
  ASSUME NEW s, IsFiniteSet(DOMAIN s), 0 \notin DOMAIN s,
         LinksMirrorParents(s), SessionsOnTop(s),
         NEW q \in DOMAIN s, s[q].type # "Session", AtRoot(s, FALSE, q),
         NEW r \in DOMAIN s, s[r].type # "Session", AtRoot(s, FALSE, r), q # r
  PROVE  Reachable(s, q) \cap Reachable(s, r) = {}
<1> DEFINE D == DOMAIN s
           below == Below(s)
           Q == Reachable(s, q)
           R == Reachable(s, r)
           X == Q \ R
<1>1. Closure(Q, D, {q}, below) /\ Closure(R, D, {r}, below)
  BY ReachableIsClosure
<1>2. \A w \in Q \cup R : w \in D /\ s[w].type # "Session"
  BY NoSessionBelow, ReachedFromAbove
<1>3. \A w \in R : w = r \/ \E x \in R : w \in below[x]
  BY ReachedFromAbove
<1>4. \A x \in D : below[x] \subseteq D /\ \A w \in below[x] : s[w].parent = x
  BY DEF Below, LinksMirrorParents
<1>5. \A w \in D, x \in Q \cup R : w \in below[x] => w # q /\ w # r
  BY <1>2, <1>4 DEF AtRoot, Found, Excluded
<1> HIDE DEF below, Q, R
<1>6. q \in X
  BY <1>1, <1>2, <1>3, <1>5 DEF Closure
<1>7. ASSUME NEW w \in X \cap D, NEW y \in below[w]
      PROVE  y \in X
  <2>1. y \in Q /\ y \in D /\ y # r
    BY <1>1, <1>4, <1>5, <1>7 DEF Closure
  <2>2. ASSUME y \in R
        PROVE  FALSE
    <3>1. PICK x \in R : y \in below[x] /\ x \in D
      BY <1>2, <1>3, <2>1, <2>2
    <3>2. x = w
      BY <1>4, <1>7, <3>1
    <3> QED BY <1>7, <3>1, <3>2
  <2> QED BY <2>1, <2>2
<1>8. Q \subseteq X
  <2>1. {q} \subseteq X
    BY <1>6
  <2> HIDE DEF X
  <2> QED BY <1>1, <1>7, <2>1 DEF Closure
<1> QED BY <1>8 DEF Q, R

-----------------------------------------------------------------------------
(* How often an element is in a sequence *)

\* How often an element is in a sequence.
Times(s, e) == Cardinality({i \in 1..Len(s) : s[i] = e})

\* It is a number.
LEMMA TimesFinite ==
  ASSUME NEW S, NEW s \in Seq(S), NEW e
  PROVE  IsFiniteSet({i \in 1..Len(s) : s[i] = e}) /\ Times(s, e) \in Nat
<1> DEFINE A == {i \in 1..Len(s) : s[i] = e}
<1>1. A \in SUBSET (1..Len(s)) /\ IsFiniteSet(1..Len(s))
  <2>1. Len(s) \in Int /\ 1 \in Int
    BY LenProperties
  <2> QED BY <2>1, FS_Interval
<1> HIDE DEF A
<1>2. IsFiniteSet(A) /\ Cardinality(A) \in Nat
  BY <1>1, FS_Subset, FS_CardinalityType
<1> QED BY <1>2 DEF A, Times

\* In a sequence of none or one it is there or not.
LEMMA TimesOfFew ==
  ASSUME NEW e
  PROVE  /\ Times(<<>>, e) = 0
         /\ \A x : Times(<<x>>, e) = IF x = e THEN 1 ELSE 0
<1>1. Times(<<>>, e) = 0
  <2>1. Len(<<>>) = 0 /\ 1..0 = {}
    OBVIOUS
  <2>2. {i \in 1..Len(<<>>) : <<>>[i] = e} = {}
    BY <2>1
  <2> QED BY <2>2, FS_EmptySet DEF Times
<1>2. ASSUME NEW x
      PROVE  Times(<<x>>, e) = IF x = e THEN 1 ELSE 0
  <2>1. Len(<<x>>) = 1 /\ 1..1 = {1} /\ <<x>>[1] = x
    OBVIOUS
  <2>2. {i \in 1..Len(<<x>>) : <<x>>[i] = e} = IF x = e THEN {1} ELSE {}
    BY <2>1
  <2>3. Cardinality({1}) = 1 /\ Cardinality({}) = 0
    BY FS_EmptySet, FS_Singleton
  <2> QED BY <2>2, <2>3 DEF Times
<1> QED BY <1>1, <1>2

\* Two sequences have it as often as both together.
LEMMA TimesConcat ==
  ASSUME NEW S, NEW s \in Seq(S), NEW t \in Seq(S), NEW e
  PROVE  Times(s \o t, e) = Times(s, e) + Times(t, e)
<1> DEFINE m == Len(s)
           n == Len(t)
           A == {i \in 1..m : s[i] = e}
           B == {i \in 1..n : t[i] = e}
           C == {i \in 1..Len(s \o t) : (s \o t)[i] = e}
           D == {i \in C : i > m}
           f == [i \in B |-> m + i]
<1>1. /\ m \in Nat /\ n \in Nat /\ Len(s \o t) = m + n
      /\ \A i \in 1..(m + n) : (s \o t)[i] = IF i <= m THEN s[i] ELSE t[i - m]
  BY LenProperties, ConcatProperties
<1>2. IsFiniteSet(A) /\ IsFiniteSet(B) /\ Cardinality(A) \in Nat /\ Cardinality(B) \in Nat
  BY TimesFinite DEF Times
<1> HIDE DEF m, n
<1>3. C = A \cup D /\ A \cap D = {}
  BY <1>1
<1>4. \A i \in B : m + i \in D
  BY <1>1
<1>5. \A k \in D : k - m \in B /\ m + (k - m) = k
  BY <1>1
<1>6. f \in Bijection(B, D)
  <2> HIDE DEF D
  <2>1. f \in [B -> D]
    BY <1>4
  <2>2. \A i, j \in B : f[i] = f[j] => i = j
    BY <1>1
  <2>3. \A k \in D : \E i \in B : f[i] = k
    BY <1>5
  <2> HIDE DEF f, B
  <2> QED BY <2>1, <2>2, <2>3 DEF Bijection, Injection, Surjection, IsInjective
<1> HIDE DEF A, B, D, f, C
<1>7. IsFiniteSet(D) /\ Cardinality(D) = Cardinality(B)
  BY <1>2, <1>6, FS_Bijection DEF ExistsBijection
<1>8. Cardinality(C) = Cardinality(A) + Cardinality(B)
  <2>1. Cardinality(A \cup D) = Cardinality(A) + Cardinality(D) - Cardinality(A \cap D)
    BY <1>2, <1>7, FS_Union
  <2>2. Cardinality(A \cap D) = 0
    BY <1>3, FS_EmptySet
  <2> QED BY <1>2, <1>3, <1>7, <2>1, <2>2
<1> QED BY <1>8 DEF Times, A, B, C, m, n

\* One element more, in front or behind, is the one that is counted or is not.
LEMMA TimesLonger ==
  ASSUME NEW S, NEW s \in Seq(S), NEW e
  PROVE  /\ \A x \in S : Times(Append(s, x), e) = Times(s, e) + IF x = e THEN 1 ELSE 0
         /\ s # <<>> => Times(s, e) = Times(Tail(s), e) + IF Head(s) = e THEN 1 ELSE 0
<1>1. ASSUME NEW x \in S
      PROVE  Times(Append(s, x), e) = Times(s, e) + IF x = e THEN 1 ELSE 0
  <2>1. <<x>> \in Seq(S) /\ Append(s, x) = s \o <<x>>
    OBVIOUS
  <2>2. Times(s \o <<x>>, e) = Times(s, e) + Times(<<x>>, e)
    BY <2>1, TimesConcat
  <2> QED BY <2>1, <2>2, TimesOfFew
<1>2. ASSUME s # <<>>
      PROVE  Times(s, e) = Times(Tail(s), e) + IF Head(s) = e THEN 1 ELSE 0
  <2>1. <<Head(s)>> \in Seq(S) /\ Tail(s) \in Seq(S) /\ s = <<Head(s)>> \o Tail(s)
    BY <1>2, HeadTailProperties
  <2>2. Times(<<Head(s)>> \o Tail(s), e) = Times(<<Head(s)>>, e) + Times(Tail(s), e)
    BY <2>1, TimesConcat
  <2>3. Times(<<Head(s)>>, e) \in Nat /\ Times(Tail(s), e) \in Nat
    BY <2>1, TimesFinite
  <2>4. Times(<<Head(s)>>, e) = IF Head(s) = e THEN 1 ELSE 0
    BY TimesOfFew
  <2> DEFINE a == Times(<<Head(s)>>, e)
             b == Times(Tail(s), e)
  <2>5. Times(s, e) = a + b
    BY <2>1, <2>2
  <2> HIDE DEF b
  <2>6. a + b = b + a
    BY <2>3 DEF b
  <2> HIDE DEF a
  <2> QED BY <2>4, <2>5, <2>6 DEF a, b
<1> QED BY <1>1, <1>2

\* Other places of the same elements make no difference.
LEMMA TimesMoved ==
  ASSUME NEW S, NEW s \in Seq(S), NEW t \in Seq(S), Len(t) = Len(s),
         NEW p \in Bijection(1..Len(s), 1..Len(s)), \A k \in 1..Len(s) : t[k] = s[p[k]],
         NEW e
  PROVE  Times(t, e) = Times(s, e)
<1> DEFINE n == Len(s)
           A == {i \in 1..n : s[i] = e}
           B == {i \in 1..n : t[i] = e}
           f == [k \in B |-> p[k]]
<1>1. /\ p \in [1..n -> 1..n] /\ \A i, j \in 1..n : p[i] = p[j] => i = j
      /\ \A i \in 1..n : \E k \in 1..n : p[k] = i
  BY DEF Bijection, Injection, Surjection, IsInjective
<1>2. IsFiniteSet(B)
  BY TimesFinite
<1>3. f \in Bijection(B, A)
  <2> HIDE DEF n
  <2>1. \A k \in B : p[k] \in A
    BY <1>1 DEF n
  <2>2. \A i \in A : \E k \in B : p[k] = i
    BY <1>1 DEF n
  <2>3. \A i, j \in B : p[i] = p[j] => i = j
    BY <1>1
  <2> HIDE DEF A, B
  <2>4. f \in [B -> A] /\ \A i \in A : \E k \in B : f[k] = i
    BY <2>1, <2>2
  <2>5. \A i, j \in B : f[i] = f[j] => i = j
    BY <2>3
  <2> HIDE DEF f
  <2> QED BY <2>4, <2>5 DEF Bijection, Injection, Surjection, IsInjective
<1> HIDE DEF f, A, B
<1>4. Cardinality(A) = Cardinality(B)
  BY <1>2, <1>3, FS_Bijection DEF ExistsBijection
<1> QED BY <1>4 DEF A, B, n, Times

\* The union of the first n sets.
FirstOf(Q, n) == UNION {Q[i] : i \in 1..n}

\* In sequences in a row it is as often as sets have elements that tell how often it is in
\* each of them and have nothing in common.
LEMMA TimesFlattened ==
  ASSUME NEW S, NEW ss \in Seq(Seq(S)), NEW e, NEW Q,
         \A i \in 1..Len(ss) : IsFiniteSet(Q[i]) /\ Times(ss[i], e) = Cardinality(Q[i]),
         \A i, j \in 1..Len(ss) : i # j => Q[i] \cap Q[j] = {}
  PROVE  /\ IsFiniteSet(FirstOf(Q, Len(ss)))
         /\ Times(FlattenSeq(ss), e) = Cardinality(FirstOf(Q, Len(ss)))
<1> DEFINE n == Len(ss)
           U(m) == UNION {Q[i] : i \in 1..m}
<1>1. n \in Nat /\ \A i \in 1..n : ss[i] \in Seq(S)
  BY LenProperties, ElementOfSeq
<1>2. PICK f : /\ f[0] = <<>> /\ \A i \in 1..n : f[i] = f[i - 1] \o ss[i]
               /\ \A i \in 0..n : f[i] \in Seq(S)
               /\ FlattenSeq(ss) = f[n]
  BY FlattenedSeq
<1> DEFINE T == {m \in 0..n : IsFiniteSet(U(m)) /\ Times(f[m], e) = Cardinality(U(m))}
<1>3. 0 \in T
  <2>1. U(0) = {} /\ 0 \in 0..n
    BY <1>1
  <2> HIDE DEF U
  <2> QED BY <1>2, <2>1, TimesOfFew, FS_EmptySet
<1>4. ASSUME NEW m \in 0..n, m \in T, m < n
      PROVE  m + 1 \in T
  <2> DEFINE p == m + 1
  <2>1. p \in 1..n /\ p \in 0..n /\ p - 1 = m /\ m \in Nat
    BY <1>1, <1>4
  <2>2. U(p) = U(m) \cup Q[p]
    <3>1. 1..p = (1..m) \cup {p}
      BY <2>1
    <3> HIDE DEF p
    <3> QED BY <3>1
  <2>3. U(m) \cap Q[p] = {}
    <3>1. \A i \in 1..m : i \in 1..n /\ i # p
      BY <2>1
    <3> HIDE DEF p
    <3> QED BY <2>1, <3>1
  <2>4. IsFiniteSet(U(m)) /\ IsFiniteSet(Q[p])
    <3> HIDE DEF U, p
    <3> QED BY <1>4, <2>1
  <2>5. Cardinality(U(p)) = Cardinality(U(m)) + Cardinality(Q[p]) /\ IsFiniteSet(U(p))
    <3> HIDE DEF U, p
    <3>1. Cardinality(U(m)) \in Nat /\ Cardinality(Q[p]) \in Nat
      BY <2>4, FS_CardinalityType
    <3>2. /\ IsFiniteSet(U(m) \cup Q[p])
          /\ Cardinality(U(m) \cup Q[p])
               = Cardinality(U(m)) + Cardinality(Q[p]) - Cardinality(U(m) \cap Q[p])
      BY <2>4, FS_Union
    <3>3. Cardinality(U(m) \cap Q[p]) = 0
      BY <2>3, FS_EmptySet
    <3> QED BY <2>2, <3>1, <3>2, <3>3
  <2>6. Times(f[p], e) = Times(f[m], e) + Times(ss[p], e)
    <3>1. f[p] = f[m] \o ss[p] /\ f[m] \in Seq(S) /\ ss[p] \in Seq(S)
      <4> HIDE DEF p
      <4> QED BY <1>1, <1>2, <2>1
    <3> HIDE DEF p
    <3> QED BY <3>1, TimesConcat
  <2> HIDE DEF U, p
  <2>7. Times(f[p], e) = Cardinality(U(p))
    BY <1>4, <2>1, <2>5, <2>6
  <2>8. p \in T
    BY <2>1, <2>5, <2>7
  <2> QED BY <2>8 DEF p
<1>5. n \in T
  <2>1. n \in 0..n
    BY <1>1
  <2> HIDE DEF T
  <2>2. 0..n \subseteq T
    BY <1>1, <1>3, <1>4, UpTo
  <2> QED BY <2>1, <2>2
<1> QED BY <1>2, <1>5 DEF FirstOf

===============================================================================
