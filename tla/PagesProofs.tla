----------------------------- MODULE PagesProofs ------------------------------
(* Theorems about the views of the page: the groups, for sets of any size     *)
(* whose parents and links may form anything, the request that is built, the  *)
(* latency summary, for any timestamps, and the timeline, for any log whose   *)
(* links form trees.                                                          *)
EXTENDS Pages, TxSetProofs

-----------------------------------------------------------------------------
(* The groups *)

\* The set and what has been found of it: every transaction is still to be looked at,
\* an excluded session, or has its root among the parents; a group is all that is
\* reachable from its root.
GroupsInv ==
  /\ DOMAIN ts \subseteq VXIDs
  /\ includeSession \in BOOLEAN
  /\ pending \in Seq(DOMAIN ts)
  /\ uniqueParents \subseteq {RootParent(ts, v, includeSession) : v \in DOMAIN ts} \ {0}
  /\ \A v \in DOMAIN ts :
       \/ \E i \in 1..Len(pending) : pending[i] = v
       \/ RootParent(ts, v, includeSession) \in uniqueParents \cup {0}
  /\ DOMAIN groups \subseteq uniqueParents
  /\ \A r \in DOMAIN groups : groups[r] = Reachable(ts, r)

Groups == view = "groups" => GroupsInv

\* The lookups of a set are the same ones in the module of the groups.
LEMMA SameLookups ==
  /\ \A S : G!Sorted(S) = Sorted(S)
  /\ \A s, v, b : G!RootParent(s, v, b) = RootParent(s, v, b)
  /\ \A s, v : G!Reachable(s, v) = Reachable(s, v)
  /\ \A s : G!LinksMirrorParents(s) <=> LinksMirrorParents(s)
  /\ \A s : G!SessionsOnTop(s) <=> SessionsOnTop(s)
<1>1. \A S : G!Sorted(S) = Sorted(S)
  BY DEF G!Sorted, Sorted, G!Cardinality, Cardinality
<1>2. \A s, v, b : G!RootParent(s, v, b) = RootParent(s, v, b)
  BY DEF G!RootParent, RootParent, G!Found, Found
<1>3. \A s, v : G!Reachable(s, v) = Reachable(s, v)
  BY DEF G!Reachable, Reachable, G!Children, Children, G!Range, Range, G!Cardinality, Cardinality
<1>4. \A s : G!LinksMirrorParents(s) <=> LinksMirrorParents(s)
  BY DEF G!LinksMirrorParents, LinksMirrorParents, G!Children, Children, G!Range, Range
<1>5. \A s : G!SessionsOnTop(s) <=> SessionsOnTop(s)
  BY DEF G!SessionsOnTop, SessionsOnTop
<1> QED BY <1>1, <1>2, <1>3, <1>4, <1>5

\* What is known of any parsed set.
LEMMA ParsedSet ==
  ASSUME DOMAIN ts \subseteq VXIDs
  PROVE  IsFiniteSet(DOMAIN ts) /\ 0 \notin DOMAIN ts /\ DOMAIN ts \in SUBSET Nat
BY VXIDsAssumption, FS_Subset

LEMMA GroupsInit ==
  ASSUME Init
  PROVE  Groups
<1> SUFFICES ASSUME view = "groups"
             PROVE  GroupsInv
  BY DEF Groups
<1>1. G!Init
  BY DEF Init
<1>2. /\ DOMAIN ts \subseteq VXIDs /\ includeSession \in BOOLEAN
      /\ pending = Sorted(DOMAIN ts) /\ uniqueParents = {} /\ groups = [r \in {} |-> {}]
  BY <1>1, SetsAssumption, SameLookups DEF G!Init
<1>3. /\ pending \in Seq(DOMAIN ts)
      /\ \A v \in DOMAIN ts : \E i \in DOMAIN pending : pending[i] = v
  <2>1. DOMAIN ts \in SUBSET Nat /\ IsFiniteSet(DOMAIN ts)
    BY <1>2, ParsedSet
  <2> DEFINE D == DOMAIN ts
  <2> HIDE DEF D
  <2>2. Sorted(D) \in Seq(D) /\ {Sorted(D)[i] : i \in DOMAIN Sorted(D)} = D
    BY <2>1, SortedHasAll DEF D
  <2>3. \A v \in D : \E i \in DOMAIN Sorted(D) : Sorted(D)[i] = v
    BY <2>2
  <2> QED BY <1>2, <2>2, <2>3 DEF D
<1>4. DOMAIN pending = 1..Len(pending)
  BY <1>3, LenProperties
<1> QED BY <1>2, <1>3, <1>4 DEF GroupsInv

\* One transaction of the loop: its root joins the parents.
LEMMA AddRootParentInv ==
  ASSUME GroupsInv, G!AddRootParent
  PROVE  GroupsInv'
<1>1. /\ pending # <<>> /\ pending' = Tail(pending)
      /\ uniqueParents' = uniqueParents \cup
                            ({RootParent(ts, Head(pending), includeSession)} \ {0})
      /\ ts' = ts /\ includeSession' = includeSession /\ groups' = groups
  BY SameLookups DEF G!AddRootParent
<1>2. /\ Head(pending) = pending[1] /\ pending[1] \in DOMAIN ts
      /\ pending' \in Seq(DOMAIN ts) /\ Len(pending') = Len(pending) - 1
      /\ Len(pending) \in Nat \ {0}
      /\ \A i \in 1..Len(pending') : pending'[i] = pending[i + 1]
  BY <1>1, HeadTailProperties, LenProperties, EmptySeq, ElementOfSeq DEF GroupsInv
<1>3. \A v \in DOMAIN ts :
        \/ \E i \in 1..Len(pending') : pending'[i] = v
        \/ RootParent(ts, v, includeSession) \in uniqueParents' \cup {0}
  <2> TAKE v \in DOMAIN ts
  <2>1. CASE \E i \in 1..Len(pending) : pending[i] = v
    <3>1. PICK i \in 1..Len(pending) : pending[i] = v
      BY <2>1
    <3>2. CASE i = 1
      BY <1>1, <1>2, <3>1, <3>2
    <3>3. CASE i # 1
      <4>1. i - 1 \in 1..Len(pending') /\ (i - 1) + 1 = i
        BY <1>2, <3>1, <3>3
      <4> QED BY <1>2, <3>1, <4>1
    <3> QED BY <3>2, <3>3
  <2>2. CASE RootParent(ts, v, includeSession) \in uniqueParents \cup {0}
    BY <1>1, <2>2
  <2> QED BY <2>1, <2>2 DEF GroupsInv
<1>4. uniqueParents' \subseteq {RootParent(ts, v, includeSession) : v \in DOMAIN ts} \ {0}
  BY <1>1, <1>2 DEF GroupsInv
<1> QED BY <1>1, <1>2, <1>3, <1>4 DEF GroupsInv

\* One root more has its group.
LEMMA CollectGroupInv ==
  ASSUME GroupsInv, G!CollectGroup
  PROVE  GroupsInv'
<1>1. PICK r \in uniqueParents \ DOMAIN groups :
        groups' = [s \in DOMAIN groups \cup {r} |->
                     IF s = r THEN Reachable(ts, r) ELSE groups[s]]
  BY SameLookups DEF G!CollectGroup
<1>2. UNCHANGED <<ts, includeSession, pending, uniqueParents>>
  BY DEF G!CollectGroup
<1>3. DOMAIN groups' \subseteq uniqueParents
      /\ \A s \in DOMAIN groups' : groups'[s] = Reachable(ts, s)
  BY <1>1 DEF GroupsInv
<1> QED BY <1>2, <1>3 DEF GroupsInv

LEMMA GroupsNext ==
  ASSUME Groups, [Next]_vars
  PROVE  Groups'
<1> SUFFICES ASSUME view' = "groups"
             PROVE  GroupsInv'
  BY DEF Groups
<1>1. CASE RenderGroups
  BY <1>1, AddRootParentInv, CollectGroupInv DEF RenderGroups, G!Next, Groups
<1>2. CASE RenderTimeline \/ RenderLatency \/ ReqBuild
  BY <1>2 DEF RenderTimeline, RenderLatency, ReqBuild
<1>3. CASE UNCHANGED vars
  BY <1>3 DEF vars, groupVars, Groups, GroupsInv
<1> QED BY <1>1, <1>2, <1>3 DEF Next

\* The groups are made of the parsed set and of what is reachable in it, whatever loops
\* the parents form: the roots are transactions of the set, and so are the members of
\* their groups (UniqueRootParents, GroupRelatedTransactions; transaction.go 332-442).
THEOREM PagesTypeCorrect == Spec => []TypeOK
<1>1. ASSUME GroupsInv
      PROVE  G!TypeOK
  <2>1. DOMAIN ts \subseteq VXIDs /\ IsFiniteSet(DOMAIN ts) /\ 0 \notin DOMAIN ts
    BY <1>1, ParsedSet DEF GroupsInv
  <2>2. \A r \in uniqueParents : r \in DOMAIN ts
    <3> TAKE r \in uniqueParents
    <3>1. PICK v \in DOMAIN ts : r = RootParent(ts, v, includeSession) /\ r # 0
      BY <1>1 DEF GroupsInv
    <3> QED BY <2>1, <3>1, RootParentIsRoot
  <2>3. \A r \in DOMAIN groups : groups[r] \subseteq DOMAIN ts
    <3> TAKE r \in DOMAIN groups
    <3>1. r \in DOMAIN ts /\ groups[r] = Reachable(ts, r)
      BY <1>1, <2>2 DEF GroupsInv
    <3>2. Closure(Reachable(ts, r), DOMAIN ts, {r}, Below(ts))
      BY <2>1, <3>1, ReachableIsClosure
    <3> QED BY <3>1, <3>2 DEF Closure
  <2>4. G!Range(pending) \subseteq DOMAIN ts
    BY <1>1, LenProperties, ElementOfSeq DEF GroupsInv, G!Range
  <2> QED BY <1>1, <2>2, <2>3, <2>4 DEF G!TypeOK, GroupsInv
<1>2. Groups => TypeOK
  BY <1>1 DEF Groups, TypeOK
<1> QED BY <1>2, GroupsInit, GroupsNext, PTL DEF Spec

\* No transaction is lost between the two relations: where Begin and Link records agree,
\* each one that is no excluded session is in the group of some root, also when its
\* parents form a loop or go deeper than RootParent does (transaction.go 332-442).
THEOREM PagesEveryTransactionGrouped == Spec => []EveryTransactionGrouped
<1>1. ASSUME GroupsInv
      PROVE  G!EveryTransactionGrouped
  <2>1. DOMAIN ts \subseteq VXIDs /\ IsFiniteSet(DOMAIN ts) /\ 0 \notin DOMAIN ts
    BY <1>1, ParsedSet DEF GroupsInv
  <2> SUFFICES ASSUME G!Divided, LinksMirrorParents(ts),
                      NEW v \in DOMAIN ts, includeSession \/ ts[v].type # "Session"
               PROVE  \E r \in uniqueParents : v \in groups[r]
    BY SameLookups DEF G!EveryTransactionGrouped
  <2>2. pending = <<>> /\ DOMAIN groups = uniqueParents
    BY DEF G!Divided
  <2> DEFINE r == RootParent(ts, v, includeSession)
  <2>3. r # 0
    BY <2>1, RootParentIsRoot DEF Excluded
  <2>4. r \in uniqueParents
    BY <1>1, <2>2, <2>3, EmptySeq DEF GroupsInv
  <2>5. v \in Reachable(ts, r)
    BY <2>1, <2>3, FoundAbove
  <2> QED BY <1>1, <2>2, <2>4, <2>5 DEF GroupsInv
<1>2. Groups => EveryTransactionGrouped
  BY <1>1 DEF Groups, EveryTransactionGrouped
<1> QED BY <1>2, GroupsInit, GroupsNext, PTL DEF Spec

\* What is above a transaction is the closure of the parents.
LEMMA AncestorsAreClosures ==
  ASSUME IsFiniteSet(DOMAIN ts), NEW v \in DOMAIN ts
  PROVE  Closure(G!Ancestors(v), DOMAIN ts, Up(ts)[v], Up(ts))
<1> DEFINE n == Cardinality(DOMAIN ts)
           S == SUBSET DOMAIN ts
           ParentsIn(w) == {ts[w].parent} \cap DOMAIN ts
           More(R) == R \cup UNION {ParentsIn(w) : w \in R}
           Body(f) == [i \in 0..n |-> IF i = 0 THEN ParentsIn(v) ELSE
                         f[i - 1] \cup UNION {ParentsIn(w) : w \in f[i - 1]}]
<1>1. n \in Nat
  BY FS_CardinalityType
<1>2. \E f : f = Body(f)
  <2> DEFINE start == ParentsIn(v)
             step == [i \in 1..n |-> [R \in S |-> More(R)]]
  <2>1. start \in S
    OBVIOUS
  <2>2. \A R \in S : More(R) \in S
    <3>1. ASSUME NEW R \in SUBSET DOMAIN ts
          PROVE  More(R) \subseteq DOMAIN ts
      OBVIOUS
    <3> QED BY <3>1
  <2>3. step \in [1..n -> [S -> S]]
    <3> HIDE DEF S, More, n
    <3>1. [R \in S |-> More(R)] \in [S -> S]
      BY <2>2
    <3> QED BY <3>1
  <2>4. PICK f : Computes(f, n, S, start, step)
    <3> HIDE DEF start, S, step, n
    <3> QED BY <1>1, <2>1, <2>3, Recursion
  <2>5. \A i \in 1..n : f[i] = More(f[i - 1])
    <3> HIDE DEF S, More, n
    <3>1. \A i \in 1..n : i - 1 \in 0..n
      BY <1>1
    <3>2. \A i \in 1..n : f[i - 1] \in S /\ f[i] = step[i][f[i - 1]]
      BY <2>4, <3>1 DEF Computes
    <3> QED BY <3>2
  <2> HIDE DEF step, S, n
  <2>6. DOMAIN f = 0..n /\ f = [i \in 0..n |-> f[i]] /\ f[0] = ParentsIn(v)
    BY <2>4 DEF Computes
  <2>7. \A i \in 0..n : i # 0 => i \in 1..n
    BY <1>1
  <2>8. f = Body(f)
    BY <2>5, <2>6, <2>7
  <2> QED BY <2>8
<1> DEFINE c == CHOOSE f : f = Body(f)
<1>3. G!Ancestors(v) = c[n]
  BY DEF G!Ancestors, G!ParentsIn, G!Cardinality, Cardinality
<1>4. c = Body(c)
  <2> HIDE DEF Body
  <2> QED BY <1>2
<1> HIDE DEF c
<1>5. Rounds(c, DOMAIN ts, Up(ts)[v], Up(ts))
  <2>1. c[0] = Up(ts)[v]
    BY <1>1, <1>4 DEF Up
  <2>2. ASSUME NEW i \in 1..n, c[i - 1] \subseteq DOMAIN ts
        PROVE  c[i] = c[i - 1] \cup UNION {Up(ts)[w] : w \in c[i - 1]}
    <3>1. i \in 0..n /\ i # 0
      BY <1>1
    <3>2. c[i] = c[i - 1] \cup UNION {ParentsIn(w) : w \in c[i - 1]}
      <4> HIDE DEF n
      <4> QED BY <1>4, <3>1
    <3>3. \A w \in c[i - 1] : Up(ts)[w] = ParentsIn(w)
      BY <2>2 DEF Up
    <3>4. UNION {ParentsIn(w) : w \in c[i - 1]} = UNION {Up(ts)[w] : w \in c[i - 1]}
      BY <3>3
    <3> QED BY <3>2, <3>4
  <2> QED BY <2>1, <2>2 DEF Rounds
<1>6. Up(ts) \in [DOMAIN ts -> SUBSET DOMAIN ts] /\ Up(ts)[v] \in SUBSET DOMAIN ts
  BY DEF Up
<1> QED BY <1>3, <1>5, <1>6, RoundsClose

\* The ancestors of every transaction, as the lemmas about RootParent want them.
LEMMA HasTopIsTopped ==
  ASSUME IsFiniteSet(DOMAIN ts)
  PROVE  \E anc : /\ AreAncestors(anc, ts)
                  /\ \A v \in DOMAIN ts :
                       G!HasTop(v) <=> Topped(anc, v) /\ Cardinality(anc[v]) <= MaxDepth
<1> DEFINE anc == [v \in DOMAIN ts |-> G!Ancestors(v)]
<1>1. \A v \in DOMAIN ts : Closure(anc[v], DOMAIN ts, Up(ts)[v], Up(ts))
  BY AncestorsAreClosures
<1>2. \A v \in DOMAIN ts : anc[v] \subseteq DOMAIN ts
  <2> HIDE DEF anc
  <2> QED BY <1>1 DEF Closure
<1>3. ASSUME NEW v \in DOMAIN ts
      PROVE  G!HasTop(v) <=> Topped(anc, v) /\ Cardinality(anc[v]) <= MaxDepth
  <2>1. \A w \in DOMAIN ts : anc[w] = G!Ancestors(w)
    OBVIOUS
  <2>2. G!Cardinality(anc[v]) = Cardinality(anc[v])
    BY DEF G!Cardinality, Cardinality
  <2> HIDE DEF anc
  <2>3. \A w \in anc[v] : anc[w] = G!Ancestors(w)
    BY <1>2, <2>1
  <2> QED BY <2>1, <2>2, <2>3 DEF G!HasTop, Topped
<1>4. AreAncestors(anc, ts)
  BY <1>1 DEF AreAncestors
<1> HIDE DEF anc
<1> QED BY <1>3, <1>4

\* "the root transaction which has no parent" (transaction.go, 378): the root found from
\* a transaction with a top has no parent in the set but a session that is left out, and
\* no root is such a session.
THEOREM PagesRootsHaveNoParent == Spec => []RootsHaveNoParent
<1>1. ASSUME GroupsInv, NEW r \in uniqueParents
      PROVE  /\ ~includeSession => ts[r].type # "Session"
             /\ (\E v \in DOMAIN ts : G!HasTop(v) /\ RootParent(ts, v, includeSession) = r) =>
                  \A p \in G!ParentsIn(r) : ~includeSession /\ ts[p].type = "Session"
  <2>1. DOMAIN ts \subseteq VXIDs /\ IsFiniteSet(DOMAIN ts) /\ 0 \notin DOMAIN ts
    BY <1>1, ParsedSet DEF GroupsInv
  <2>2. PICK u \in DOMAIN ts : r = RootParent(ts, u, includeSession) /\ r # 0
    BY <1>1 DEF GroupsInv
  <2>3. ~Excluded(ts, includeSession, r)
    BY <2>1, <2>2, RootParentIsRoot
  <2>4. ASSUME NEW v \in DOMAIN ts, G!HasTop(v), RootParent(ts, v, includeSession) = r,
               NEW p \in G!ParentsIn(r)
        PROVE  ~includeSession /\ ts[p].type = "Session"
    <3>1. PICK anc : /\ AreAncestors(anc, ts)
                     /\ \A w \in DOMAIN ts :
                          G!HasTop(w) <=> Topped(anc, w) /\ Cardinality(anc[w]) <= MaxDepth
      BY <2>1, HasTopIsTopped
    <3>2. AtRoot(ts, includeSession, r)
      BY <2>1, <2>2, <2>4, <3>1, RootParentOfTopped
    <3>3. p = ts[r].parent /\ p \in DOMAIN ts
      BY DEF G!ParentsIn
    <3> QED BY <2>1, <3>2, <3>3 DEF AtRoot, Found, Excluded
  <2> QED BY <2>3, <2>4 DEF Excluded
<1>2. ASSUME GroupsInv
      PROVE  G!RootsHaveNoParent
  BY <1>1, <1>2, SameLookups DEF G!RootsHaveNoParent
<1>3. Groups => RootsHaveNoParent
  BY <1>2 DEF Groups, RootsHaveNoParent
<1> QED BY <1>3, GroupsInit, GroupsNext, PTL DEF Spec

\* "txs grouped by their parent tx" (transaction.go, 358): where the two relations agree,
\* the parents form no loop and are not deeper than RootParent goes, no transaction is
\* in two groups.
THEOREM PagesGroupsDisjoint == Spec => []GroupsDisjoint
<1>1. ASSUME GroupsInv
      PROVE  G!GroupsDisjoint
  <2>1. DOMAIN ts \subseteq VXIDs /\ IsFiniteSet(DOMAIN ts) /\ 0 \notin DOMAIN ts
    BY <1>1, ParsedSet DEF GroupsInv
  <2> SUFFICES ASSUME G!Divided, LinksMirrorParents(ts), SessionsOnTop(ts),
                      \A v \in DOMAIN ts : G!HasTop(v),
                      NEW r \in uniqueParents, NEW s \in uniqueParents, r # s
               PROVE  groups[r] \cap groups[s] = {}
    BY SameLookups DEF G!GroupsDisjoint
  <2>2. PICK anc : /\ AreAncestors(anc, ts)
                   /\ \A w \in DOMAIN ts :
                        G!HasTop(w) <=> Topped(anc, w) /\ Cardinality(anc[w]) <= MaxDepth
    BY <2>1, HasTopIsTopped
  <2>3. \A w \in DOMAIN ts : Topped(anc, w) /\ Cardinality(anc[w]) <= MaxDepth
    BY <2>2
  <2>4. ASSUME NEW q \in uniqueParents
        PROVE  /\ groups[q] = Reachable(ts, q)
               /\ \A w \in Reachable(ts, q) : RootParent(ts, w, includeSession) = q
    <3>1. PICK v \in DOMAIN ts : q = RootParent(ts, v, includeSession) /\ q # 0
      BY <1>1 DEF GroupsInv
    <3>2. \A w \in Reachable(ts, q) : RootParent(ts, w, includeSession) = q
      BY <2>1, <2>2, <2>3, <3>1, RootOfReachable
    <3> QED BY <1>1, <3>2 DEF GroupsInv, G!Divided
  <2> QED BY <2>4
<1>2. Groups => GroupsDisjoint
  BY <1>1 DEF Groups, GroupsDisjoint
<1> QED BY <1>2, GroupsInit, GroupsNext, PTL DEF Spec

-----------------------------------------------------------------------------
(* The request *)

\* Where the command is to connect: to the address with its brackets, or nowhere else.
Asked ==
  IF form.connectTo = "custom" THEN form.custom
  ELSE IF form.backend = "none" THEN B!NoText
  ELSE IF form.backend # "auto" THEN form.address
  ELSE IF tx.type = "BeReq" THEN tx.conn ELSE B!NoText

ConnectsTo(to) ==
  IF Asked = B!NoText THEN to = B!NoText
  ELSE Asked.port # "none" =>
         to = [Asked EXCEPT !.brackets = IF Asked.host \in B!IPv6 THEN 1 ELSE 0]

\* What each step leaves for the next one.
RequestInv ==
  /\ form.custom \in B!Texts /\ form.address \in B!Texts
  /\ tx.host \in B!Texts /\ tx.conn \in B!Texts /\ tx.conn.brackets = 0
  /\ pc \in {"request", "render", "done"} => ConnectsTo(backend)
  /\ pc \in {"render", "done"} =>
       request.host = B!HostOf /\ ~(B!HasColon(tx.host) /\ B!HostOf = B!NoText)
  /\ pc = "done" =>
       /\ text.connectTo = backend
       /\ text.authority = IF request.host.port # "" THEN B!JoinHostPort(request.host)
                           ELSE request.host

Request == view = "request" => RequestInv

\* What ParseBackend makes of a text that has a port: the same with the right brackets.
LEMMA ParsedText ==
  ASSUME NEW t \in B!Texts
  PROVE  /\ B!ParseBackend(t) # B!NoText /\ t.port # "none" =>
              B!ParseBackend(t) = [t EXCEPT !.brackets = IF t.host \in B!IPv6 THEN 1 ELSE 0]
         /\ B!ParseBackend(B!NoText) = B!NoText
<1> USE DEF B!Texts, B!Hosts, B!Ports, B!IPv6, B!NoText, B!Text
<1>1. ASSUME B!Splits(t)
      PROVE  B!ParseBackend(t) = [t EXCEPT !.brackets = IF t.host \in B!IPv6 THEN 1 ELSE 0]
  <2>1. t.port # "none" /\ B!Text(t.host, 0, t.port) # B!NoText
    BY <1>1 DEF B!Splits
  <2>2. B!HasColonInside(t.host) <=> t.host \in B!IPv6
    BY DEF B!HasColonInside
  <2>3. B!ParseBackend(t) = [B!Text(t.host, 0, t.port) EXCEPT
                               !.brackets = IF t.host \in B!IPv6 THEN 1 ELSE 0]
    BY <1>1, <2>1, <2>2 DEF B!ParseBackend
  <2> QED BY <2>3
<1>2. ASSUME ~B!Splits(t), B!ParseBackend(t) # B!NoText, t.port # "none"
      PROVE  B!ParseBackend(t) = [t EXCEPT !.brackets = IF t.host \in B!IPv6 THEN 1 ELSE 0]
  <2>1. t.host \in B!IPv6 /\ t.host # "" /\ t.brackets \in 0..1
    BY <1>2 DEF B!Splits, B!HasColonInside
  <2>2. t.port \in {"80", "443"}
    <3>1. ASSUME t.port \notin {"80", "443"}
          PROVE  B!LastColon(t) = B!NoText
      BY <1>2, <3>1 DEF B!LastColon
    <3> QED BY <1>2, <3>1 DEF B!ParseBackend
  <2>3. B!LastColon(t) = B!Text(t.host, t.brackets, t.port)
    BY <2>2 DEF B!LastColon
  <2>4. B!ParseBackend(t) = [B!Text(t.host, t.brackets, t.port) EXCEPT !.brackets = 1]
    BY <1>2, <2>1, <2>3 DEF B!ParseBackend, B!HasColonInside
  <2> QED BY <2>1, <2>4
<1>3. B!ParseBackend(B!NoText) = B!NoText
  BY DEF B!Splits, B!ParseBackend, B!HasColonInside, B!LastColon
<1> QED BY <1>1, <1>2, <1>3

\* A Host that is no IPv6 address comes back from ParseBackend and JoinHostPort as it was.
LEMMA HostJoined ==
  ASSUME tx.host \in B!Texts, tx.host.host \notin B!IPv6,
         ~(B!HasColon(tx.host) /\ B!HostOf = B!NoText)
  PROVE  (IF B!HostOf.port # "" THEN B!JoinHostPort(B!HostOf) ELSE B!HostOf)
           = [tx.host EXCEPT !.port = IF @ = "none" THEN "" ELSE @]
<1> DEFINE t == tx.host
<1>1. /\ t.host # "v6cut" /\ ~B!HasColonInside(t.host) /\ t.brackets = 0
      /\ t = B!Text(t.host, t.brackets, t.port)
  <2>1. t = [host |-> t.host, brackets |-> t.brackets, port |-> t.port]
    BY DEF B!Texts
  <2>2. t.host \in B!Hosts /\ t.brackets \in 0..1 /\ (t.brackets = 1 => t.host \in B!IPv6)
    BY DEF B!Texts
  <2>3. t.host # "v6cut" /\ ~B!HasColonInside(t.host)
    BY <2>2 DEF B!Hosts, B!IPv6, B!HasColonInside
  <2> QED BY <2>1, <2>2, <2>3 DEF B!Text
<1>2. B!HasColon(t) <=> t.port # "none"
  BY <1>1 DEF B!HasColon
<1>3. CASE t.port = "none"
  <2>1. B!HostOf = [t EXCEPT !.port = ""]
    BY <1>2, <1>3 DEF B!HostOf
  <2>2. B!HostOf.port = ""
    BY <1>1, <2>1 DEF B!Text
  <2> QED BY <1>1, <1>3, <2>1, <2>2 DEF B!Text
<1>4. CASE t.port # "none"
  <2>1. B!HostOf = B!ParseBackend(t) /\ B!ParseBackend(t) # B!NoText
    BY <1>2, <1>4 DEF B!HostOf
  <2>2. B!ParseBackend(t) = [t EXCEPT !.brackets = IF t.host \in B!IPv6 THEN 1 ELSE 0]
    BY <1>4, <2>1, ParsedText
  <2>3. B!HostOf = t
    BY <1>1, <2>1, <2>2 DEF B!Text
  <2>4. B!JoinHostPort(t) = t
    BY <1>1 DEF B!JoinHostPort, B!Text
  <2>5. [t EXCEPT !.port = IF @ = "none" THEN "" ELSE @] = t
    BY <1>1, <1>4 DEF B!Text
  <2> QED BY <2>3, <2>4, <2>5
<1> QED BY <1>3, <1>4

\* The backend that ParseBackend returns is the one that was asked for.
LEMMA AskedBackend ==
  ASSUME RequestInv, B!ParsesBackend, B!ParseBackend(B!ToParse) # B!NoText
  PROVE  ConnectsTo(B!ParseBackend(B!ToParse))
<1>1. form.connectTo # "custom" => form.connectTo = "backend" /\ form.backend # "none"
  BY DEF B!ParsesBackend
<1>2. CASE form.connectTo = "custom" \/ form.backend # "auto"
  <2>1. B!ToParse = Asked /\ Asked \in B!Texts
    BY <1>1, <1>2 DEF B!ToParse, Asked, RequestInv
  <2> QED BY <2>1, ParsedText DEF ConnectsTo
<1>3. CASE form.connectTo # "custom" /\ form.backend = "auto"
  <2>1. tx.type = "BeReq" /\ Asked = tx.conn
    BY <1>1, <1>3 DEF B!ParsesBackend, Asked
  <2>2. B!ToParse = B!GetBackendConnStr
    BY <1>3 DEF B!ToParse
  <2>3. tx.conn \in B!Texts
    BY DEF RequestInv
  <2>4. CASE tx.conn = B!NoText
    <3>1. B!ToParse = B!NoText
      BY <2>2, <2>4 DEF B!GetBackendConnStr
    <3> QED BY <2>3, <3>1, ParsedText
  <2>5. CASE tx.conn # B!NoText
    <3>1. B!ToParse = B!JoinHostPort(tx.conn)
      BY <2>1, <2>2, <2>5 DEF B!GetBackendConnStr
    <3>2. ASSUME tx.conn.port # "none"
          PROVE  B!ParseBackend(B!JoinHostPort(tx.conn))
                   = [tx.conn EXCEPT !.brackets = IF tx.conn.host \in B!IPv6 THEN 1 ELSE 0]
      <4> DEFINE t == B!JoinHostPort(tx.conn)
      <4>1. /\ tx.conn \in [host : B!Hosts, brackets : 0..1, port : B!Ports]
            /\ tx.conn.brackets = 0
        BY <2>3 DEF B!Texts, RequestInv
      <4>2. B!HasColonInside(tx.conn.host) <=> tx.conn.host \in B!IPv6
        BY <4>1 DEF B!Hosts, B!IPv6, B!HasColonInside
      <4>3. t = [tx.conn EXCEPT !.brackets = IF tx.conn.host \in B!IPv6 THEN 1 ELSE 0]
        BY <4>1, <4>2 DEF B!JoinHostPort
      <4>4. t \in B!Texts /\ t.port # "none" /\ t.host = tx.conn.host
        BY <3>2, <4>1, <4>3 DEF B!Texts
      <4>5. [t EXCEPT !.brackets = IF t.host \in B!IPv6 THEN 1 ELSE 0] = t
        BY <4>1, <4>3, <4>4
      <4> HIDE DEF t
      <4> QED BY <3>1, <4>3, <4>4, <4>5, ParsedText DEF t
    <3> QED BY <2>1, <2>5, <3>1, <3>2 DEF ConnectsTo
  <2> QED BY <2>4, <2>5
<1> QED BY <1>2, <1>3

LEMMA RequestInit ==
  ASSUME Init
  PROVE  Request
<1> SUFFICES ASSUME view = "request"
             PROVE  RequestInv
  BY DEF Request
<1>1. B!Init
  BY DEF Init
<1>2. form \in Forms /\ tx \in Transactions /\ pc = "form"
  BY <1>1 DEF B!Init
<1> QED BY <1>2, TextsAssumption DEF RequestInv

LEMMA RequestStep ==
  ASSUME RequestInv, B!Next
  PROVE  RequestInv'
<1>1. form' = form /\ tx' = tx
  BY DEF B!Next, B!NoBackend, B!TakeBackend, B!BadForm, B!NewHTTPRequest, B!BadRequest, B!Render
<1>2. /\ (form.custom \in B!Texts /\ form.address \in B!Texts)'
      /\ (tx.host \in B!Texts /\ tx.conn \in B!Texts /\ tx.conn.brackets = 0)'
  BY <1>1 DEF RequestInv
<1>3. \A to : ConnectsTo(to)' <=> ConnectsTo(to)
  BY <1>1 DEF ConnectsTo, Asked
<1>4. B!HostOf' = B!HostOf
  BY <1>1 DEF B!HostOf
<1>5. CASE B!NoBackend
  <2>1. pc' = "request" /\ backend' = B!NoText /\ Asked = B!NoText
    BY <1>5 DEF B!NoBackend, Asked
  <2>2. ConnectsTo(backend)'
    BY <1>1, <2>1 DEF ConnectsTo, Asked
  <2> QED BY <1>2, <2>1, <2>2 DEF RequestInv
<1>6. CASE B!TakeBackend
  <2>1. pc' = "request" /\ backend' = B!ParseBackend(B!ToParse) /\ ConnectsTo(backend')
    BY <1>6, AskedBackend DEF B!TakeBackend
  <2>2. ConnectsTo(backend)'
    BY <1>1, <2>1 DEF ConnectsTo, Asked
  <2> QED BY <1>2, <2>1, <2>2 DEF RequestInv
<1>7. CASE B!BadForm \/ B!BadRequest
  <2>1. pc' = "error"
    BY <1>7 DEF B!BadForm, B!BadRequest
  <2> QED BY <1>2, <2>1 DEF RequestInv
<1>8. CASE B!NewHTTPRequest
  <2>1. /\ pc = "request" /\ pc' = "render" /\ backend' = backend
        /\ request' = [host |-> B!HostOf, headers |-> tx.headers \ form.excluded]
        /\ ~(B!HasColon(tx.host) /\ B!HostOf = B!NoText)
    BY <1>8 DEF B!NewHTTPRequest
  <2>2. ConnectsTo(backend)'
    BY <1>1, <2>1 DEF RequestInv, ConnectsTo, Asked
  <2>3. request'.host = B!HostOf
    BY <2>1
  <2> QED BY <1>1, <1>2, <1>4, <2>1, <2>2, <2>3 DEF RequestInv
<1>9. CASE B!Render
  <2>1. /\ pc = "render" /\ pc' = "done" /\ backend' = backend /\ request' = request
        /\ text' = [scheme |-> B!Scheme,
                    authority |-> IF request.host.port # "" THEN B!JoinHostPort(request.host)
                                  ELSE request.host,
                    connectTo |-> backend, headers |-> request.headers]
    BY <1>9 DEF B!Render
  <2>2. ConnectsTo(backend)'
    BY <1>1, <2>1 DEF RequestInv, ConnectsTo, Asked
  <2>3. (/\ text.connectTo = backend
         /\ text.authority = IF request.host.port # "" THEN B!JoinHostPort(request.host)
                             ELSE request.host)'
    BY <2>1
  <2>4. (request.host = B!HostOf /\ ~(B!HasColon(tx.host) /\ B!HostOf = B!NoText))'
    BY <1>1, <1>4, <2>1 DEF RequestInv
  <2> QED BY <1>2, <2>1, <2>2, <2>3, <2>4 DEF RequestInv
<1> QED BY <1>5, <1>6, <1>7, <1>8, <1>9 DEF B!Next

LEMMA RequestNext ==
  ASSUME Request, [Next]_vars
  PROVE  Request'
<1> SUFFICES ASSUME view' = "request"
             PROVE  RequestInv'
  BY DEF Request
<1>1. CASE ReqBuild
  BY <1>1, RequestStep DEF ReqBuild, Request
<1>2. CASE RenderGroups \/ RenderTimeline \/ RenderLatency
  BY <1>2 DEF RenderGroups, RenderTimeline, RenderLatency
<1>3. CASE UNCHANGED vars
  <2>1. UNCHANGED <<view, form, tx, pc, backend, request, text>>
    BY <1>3 DEF vars, buildVars
  <2> QED BY <2>1 DEF Request, RequestInv, ConnectsTo, Asked, B!HostOf
<1> QED BY <1>1, <1>2, <1>3 DEF Next

\* The URL is the one the client asked for, for every Host that is no IPv6 address and
\* every form: split into host and port and joined again, it is what it was
\* (httpmodel.go, 30-42 and 141-145).
THEOREM PagesAuthorityIsHost == Spec => []AuthorityIsHost
<1>1. ASSUME RequestInv
      PROVE  B!AuthorityIsHost
  BY <1>1, HostJoined DEF RequestInv, B!AuthorityIsHost
<1>2. Request => AuthorityIsHost
  BY <1>1 DEF Request, AuthorityIsHost
<1> QED BY <1>2, RequestInit, RequestNext, PTL DEF Spec

\* The command connects to the backend of the log, of the list or of the user, with the
\* brackets an IPv6 address has to have there, and to none when the request went to none
\* (helpers.go, 18-56).
THEOREM PagesConnectsWhereAsked == Spec => []ConnectsWhereAsked
<1>1. ASSUME RequestInv
      PROVE  B!ConnectsWhereAsked
  BY <1>1 DEF RequestInv, B!ConnectsWhereAsked, ConnectsTo, Asked
<1>2. Request => ConnectsWhereAsked
  BY <1>1 DEF Request, ConnectsWhereAsked
<1> QED BY <1>2, RequestInit, RequestNext, PTL DEF Spec

-----------------------------------------------------------------------------
(* A counter: sorted values, their sum and the percentiles *)

NonDecreasing(s) == \A i, j \in 1..Len(s) : i <= j => s[i] <= s[j]

\* The sort of a counter: each value moves to a place of its own, and behind none
\* that is greater.
LEMMA AscendingSorts ==
  ASSUME NEW s \in Seq(Nat)
  PROVE  /\ L!Ascending(s) \in Seq(Nat) /\ Len(L!Ascending(s)) = Len(s)
         /\ NonDecreasing(L!Ascending(s))
         /\ \E p \in Bijection(1..Len(s), 1..Len(s)) :
              \A k \in 1..Len(s) : L!Ascending(s)[k] = s[p[k]]
<1> DEFINE n == Len(s)
           Before(i, j) == s[j] < s[i] \/ (s[j] = s[i] /\ j <= i)
           upTo(i) == {j \in 1..n : Before(i, j)}
           place == [i \in 1..n |-> Cardinality(upTo(i))]
           pick(k) == CHOOSE i \in 1..n : Cardinality(upTo(i)) = k
           p == [k \in 1..n |-> pick(k)]
<1>1. /\ n \in Nat /\ DOMAIN s = 1..n /\ \A i \in 1..n : s[i] \in Nat
      /\ IsFiniteSet(1..n) /\ Cardinality(1..n) = n
  <2>1. n \in Nat /\ DOMAIN s = 1..n /\ \A i \in 1..n : s[i] \in Nat
    BY LenProperties, ElementOfSeq
  <2> HIDE DEF n
  <2>2. 1 \in Int /\ n \in Int /\ n - 1 + 1 = n /\ (1 > n => n = 0)
    BY <2>1
  <2>3. IsFiniteSet(1..n) /\ Cardinality(1..n) = n
    BY <2>2, FS_Interval
  <2> QED BY <2>1, <2>3
<1>2. L!Ascending(s) = [k \in 1..n |-> s[pick(k)]]
  BY <1>1 DEF L!Ascending, L!Cardinality, Cardinality
<1> HIDE DEF n
<1>3. \A i \in 1..n : upTo(i) \in SUBSET (1..n) /\ IsFiniteSet(upTo(i)) /\ i \in upTo(i)
  <2> TAKE i \in 1..n
  <2>1. upTo(i) \in SUBSET (1..n)
    OBVIOUS
  <2>2. i \in upTo(i)
    BY <1>1
  <2> HIDE DEF upTo
  <2> QED BY <1>1, <2>1, <2>2, FS_Subset
<1>4. \A i, j, k \in 1..n : Before(i, j) /\ Before(j, k) => Before(i, k)
  BY <1>1
<1>5. \A i, j \in 1..n : i # j => (Before(i, j) <=> ~Before(j, i))
  BY <1>1
<1>6. \A i, j \in 1..n : i # j /\ j \in upTo(i) => Cardinality(upTo(j)) < Cardinality(upTo(i))
  <2> TAKE i, j \in 1..n
  <2> HAVE i # j /\ j \in upTo(i)
  <2>1. Before(i, j) /\ ~Before(j, i)
    <3> HIDE DEF Before
    <3> QED BY <1>5
  <2>2. upTo(j) \in SUBSET upTo(i) /\ upTo(j) # upTo(i)
    <3>1. \A k \in upTo(j) : k \in upTo(i)
      <4> HIDE DEF Before
      <4> QED BY <1>4, <2>1
    <3>2. i \in upTo(i) /\ i \notin upTo(j)
      <4> HIDE DEF Before
      <4> QED BY <1>3, <2>1
    <3> HIDE DEF upTo
    <3> QED BY <3>1, <3>2
  <2>3. /\ Cardinality(upTo(i)) \in Nat /\ Cardinality(upTo(j)) \in Nat
        /\ Cardinality(upTo(j)) <= Cardinality(upTo(i))
        /\ Cardinality(upTo(j)) # Cardinality(upTo(i))
    <3> HIDE DEF upTo
    <3> QED BY <1>3, <2>2, FS_Subset, FS_CardinalityType
  <2> QED BY <2>3
<1>7. \A i \in 1..n : Cardinality(upTo(i)) \in 1..n
  <2> TAKE i \in 1..n
  <2> HIDE DEF upTo
  <2>1. upTo(i) \in SUBSET (1..n) /\ IsFiniteSet(upTo(i)) /\ upTo(i) # {}
    BY <1>3
  <2>2. /\ Cardinality(upTo(i)) \in Nat /\ Cardinality(upTo(i)) <= n
        /\ Cardinality(upTo(i)) # 0
    BY <1>1, <2>1, FS_Subset, FS_CardinalityType, FS_EmptySet
  <2> QED BY <1>1, <2>2
<1>8. place \in Injection(1..n, 1..n)
  <2>1. place \in [1..n -> 1..n]
    <3> HIDE DEF upTo
    <3> QED BY <1>7
  <2>2. ASSUME NEW i \in 1..n, NEW j \in 1..n, i # j
        PROVE  place[i] # place[j]
    <3>1. i \in upTo(j) \/ j \in upTo(i)
      BY <1>5, <2>2
    <3>2. /\ Cardinality(upTo(i)) \in Nat /\ Cardinality(upTo(j)) \in Nat
          /\ \/ Cardinality(upTo(i)) < Cardinality(upTo(j))
             \/ Cardinality(upTo(j)) < Cardinality(upTo(i))
      <4> HIDE DEF upTo
      <4> QED BY <1>6, <1>7, <2>2, <3>1
    <3>3. place[i] = Cardinality(upTo(i)) /\ place[j] = Cardinality(upTo(j))
      BY DEF place
    <3> HIDE DEF place, upTo
    <3> QED BY <3>2, <3>3
  <2> HIDE DEF place
  <2> QED BY <2>1, <2>2 DEF Injection, IsInjective
<1>9. place \in Surjection(1..n, 1..n)
  <2> HIDE DEF place
  <2> QED BY <1>1, <1>8, FS_Injection
<1>10. \A k \in 1..n : pick(k) \in 1..n /\ Cardinality(upTo(pick(k))) = k
  <2> TAKE k \in 1..n
  <2>1. PICK i \in 1..n : place[i] = k
    <3> HIDE DEF place
    <3> QED BY <1>9 DEF Surjection
  <2>2. Cardinality(upTo(i)) = k
    BY <2>1
  <2> HIDE DEF upTo
  <2> QED BY <2>2
<1> HIDE DEF pick
<1>11. p \in Bijection(1..n, 1..n)
  <2>1. p \in [1..n -> 1..n]
    BY <1>10
  <2>2. \A k, l \in 1..n : p[k] = p[l] => k = l
    <3> HIDE DEF upTo
    <3> QED BY <1>10
  <2> HIDE DEF p
  <2>3. p \in Injection(1..n, 1..n)
    BY <2>1, <2>2 DEF Injection, IsInjective
  <2>4. p \in Surjection(1..n, 1..n)
    BY <1>1, <2>3, FS_Injection
  <2> QED BY <2>3, <2>4 DEF Bijection
<1> DEFINE sorted == L!Ascending(s)
<1>12. sorted \in [1..n -> Nat] /\ \A k \in 1..n : sorted[k] = s[p[k]]
  BY <1>1, <1>2, <1>10
<1>13. sorted \in Seq(Nat) /\ Len(sorted) = n
  <2> HIDE DEF sorted
  <2>1. sorted \in Seq(Nat)
    BY <1>1, <1>12, SeqDef
  <2> QED BY <1>1, <1>12, <2>1, LenProperties
<1>14. \A k, l \in 1..n : k <= l => sorted[k] <= sorted[l]
  <2> TAKE k, l \in 1..n
  <2> HAVE k <= l
  <2> DEFINE i == pick(k)
             j == pick(l)
  <2>1. i \in 1..n /\ j \in 1..n /\ sorted[k] = s[i] /\ sorted[l] = s[j]
    BY <1>10, <1>12
  <2>2. CASE i = j
    BY <1>1, <2>1, <2>2
  <2>3. CASE i # j /\ i \in upTo(j)
    <3>1. s[i] <= s[j]
      BY <1>1, <2>1, <2>3
    <3> QED BY <2>1, <3>1
  <2>4. CASE i # j /\ i \notin upTo(j)
    <3>1. j \in upTo(i)
      BY <1>5, <2>1, <2>4
    <3>2. Cardinality(upTo(j)) < Cardinality(upTo(i))
      <4> HIDE DEF upTo
      <4> QED BY <1>6, <2>1, <2>4, <3>1
    <3>3. l < k
      <4> HIDE DEF upTo
      <4> QED BY <1>10, <3>2
    <3> QED BY <1>1, <3>3
  <2> HIDE DEF sorted, upTo, i, j
  <2> QED BY <2>2, <2>3, <2>4
<1> HIDE DEF sorted, p
<1>15. NonDecreasing(sorted)
  BY <1>13, <1>14 DEF NonDecreasing
<1> QED BY <1>11, <1>12, <1>13, <1>15 DEF n, sorted

\* A quotient of natural numbers is within what its product with the divisor allows.
LEMMA QuotientBetween ==
  ASSUME NEW n \in Nat \ {0}, NEW t \in Nat, NEW low \in Nat, NEW high \in Nat,
         n * low <= t, t <= n * high
  PROVE  low <= t \div n /\ t \div n <= high
<1> DEFINE q == t \div n
           r == t % n
<1>1. q \in Nat /\ r \in Nat /\ r < n /\ t = n * q + r
  BY SMT
<1> HIDE DEF q, r
<1>2. ASSUME q < low PROVE FALSE
  <2>1. q + 1 <= low
    BY <1>1, <1>2
  <2>2. n * (q + 1) <= n * low /\ n * (q + 1) = n * q + n
    BY <1>1, <2>1, SMT
  <2>3. n * q \in Nat /\ n * low \in Nat /\ n * (q + 1) \in Nat
    BY <1>1
  <2> QED BY <1>1, <2>2, <2>3
<1>3. ASSUME high < q PROVE FALSE
  <2>1. high + 1 <= q
    BY <1>1, <1>3
  <2>2. n * (high + 1) <= n * q /\ n * (high + 1) = n * high + n
    BY <1>1, <2>1, SMT
  <2>3. n * q \in Nat /\ n * high \in Nat /\ n * (high + 1) \in Nat
    BY <1>1
  <2> QED BY <1>1, <2>2, <2>3
<1> QED BY <1>1, <1>2, <1>3 DEF q

\* The average is between the first and the last value of a counter.
LEMMA AverageBetween ==
  ASSUME NEW s \in Seq(Nat), s # <<>>, NonDecreasing(s)
  PROVE  L!Lowest(s) <= L!Average(s) /\ L!Average(s) <= L!Highest(s)
<1> DEFINE n == Len(s)
           low == s[1]
           high == s[n]
           Body(f) == [i \in 0..n |-> IF i = 0 THEN 0 ELSE f[i - 1] + s[i]]
<1>1. /\ n \in Nat \ {0} /\ \A i \in 1..n : s[i] \in Nat
      /\ \A i \in 1..n : low <= s[i] /\ s[i] <= high
  <2>1. n \in Nat /\ n # 0 /\ \A i \in 1..n : s[i] \in Nat
    BY LenProperties, ElementOfSeq, EmptySeq
  <2> QED BY <2>1 DEF NonDecreasing
<1>2. low \in Nat /\ high \in Nat
  BY <1>1
<1>3. \E f : f = Body(f)
  <2> DEFINE step == [i \in 1..n |-> [t \in Nat |-> t + s[i]]]
  <2>1. step \in [1..n -> [Nat -> Nat]]
    BY <1>1
  <2>2. PICK f : Computes(f, n, Nat, 0, step)
    <3>1. 0 \in Nat /\ n \in Nat
      BY <1>1
    <3> HIDE DEF step, n
    <3> QED BY <2>1, <3>1, Recursion
  <2>3. \A i \in 1..n : f[i] = f[i - 1] + s[i]
    <3>1. \A i \in 1..n : i - 1 \in 0..n
      BY <1>1
    <3>2. \A i \in 1..n : f[i - 1] \in Nat /\ f[i] = step[i][f[i - 1]]
      <4> HIDE DEF step, n
      <4> QED BY <2>2, <3>1 DEF Computes
    <3> HIDE DEF n
    <3> QED BY <3>2
  <2> HIDE DEF step, n
  <2>4. DOMAIN f = 0..n /\ f = [i \in 0..n |-> f[i]] /\ f[0] = 0
    BY <2>2 DEF Computes
  <2>5. \A i \in 0..n : i # 0 => i \in 1..n
    BY <1>1
  <2>6. f = Body(f)
    BY <2>3, <2>4, <2>5
  <2> QED BY <2>6
<1> DEFINE sum == CHOOSE f : f = Body(f)
<1>4. sum = Body(sum)
  <2> HIDE DEF Body
  <2> QED BY <1>3
<1>5. L!SumOf(s) = sum[n]
  BY DEF L!SumOf
<1> HIDE DEF sum, n, low, high
<1>6. sum[0] = 0 /\ \A i \in 0..n : i < n => sum[i + 1] = sum[i] + s[i + 1]
  <2>1. 0 \in 0..n /\ \A i \in 0..n : i < n => i + 1 \in 0..n /\ i + 1 # 0 /\ (i + 1) - 1 = i
    BY <1>1
  <2> QED BY <1>4, <2>1
<1> DEFINE Met == {i \in 0..n : sum[i] \in Nat /\ i * low <= sum[i] /\ sum[i] <= i * high}
<1>7. 0 \in Met
  BY <1>1, <1>2, <1>6
<1>8. ASSUME NEW i \in 0..n, i \in Met, i < n
      PROVE  i + 1 \in Met
  <2> DEFINE j == i + 1
  <2>1. j \in 0..n /\ j \in 1..n /\ i \in Nat
    BY <1>1, <1>8
  <2>2. /\ s[j] \in Nat /\ low <= s[j] /\ s[j] <= high
        /\ sum[j] = sum[i] + s[j]
    BY <1>1, <1>6, <1>8, <2>1
  <2>3. sum[i] \in Nat /\ i * low <= sum[i] /\ sum[i] <= i * high
    BY <1>8
  <2>4. /\ j * low = i * low + low /\ j * high = i * high + high
        /\ i * low \in Nat /\ i * high \in Nat
    BY <1>2, <2>1, SMT
  <2> DEFINE a == i * low
             b == i * high
             c == j * low
             d == j * high
  <2> HIDE DEF j, a, b, c, d
  <2>5. sum[j] \in Nat /\ j * low <= sum[j] /\ sum[j] <= j * high
    <3>1. /\ c = a + low /\ d = b + high /\ a \in Nat /\ b \in Nat
          /\ a <= sum[i] /\ sum[i] <= b /\ sum[i] \in Nat
      BY <2>3, <2>4 DEF a, b, c, d
    <3> DEFINE x == sum[i]
               y == s[j]
               z == sum[j]
    <3>2. /\ x \in Nat /\ y \in Nat /\ z = x + y /\ low <= y /\ y <= high
          /\ a <= x /\ x <= b
      BY <2>2, <3>1
    <3> HIDE DEF x, y, z
    <3>3. z \in Nat /\ c <= z /\ z <= d
      BY <1>2, <3>1, <3>2
    <3>4. sum[j] \in Nat /\ c <= sum[j] /\ sum[j] <= d
      BY <3>3 DEF z
    <3> QED BY <3>4 DEF c, d
  <2> QED BY <2>1, <2>5 DEF j
<1>9. n \in Met
  <2>1. n \in Nat /\ n \in 0..n
    BY <1>1
  <2> HIDE DEF Met
  <2>2. 0..n \subseteq Met
    BY <1>7, <1>8, <2>1, UpTo
  <2> QED BY <2>1, <2>2
<1>10. low <= sum[n] \div n /\ sum[n] \div n <= high
  <2>1. sum[n] \in Nat /\ n * low <= sum[n] /\ sum[n] <= n * high
    BY <1>9
  <2> QED BY <1>1, <1>2, <2>1, QuotientBetween
<1> QED BY <1>5, <1>10 DEF L!Average, L!Lowest, L!Highest, n, low, high

\* The value at rank r, in hundredths of a place (the closure getPercentile).
Interpolated(s, r) ==
  LET lower == r \div 100 + 1
  IN  IF lower + 1 > Len(s) THEN s[lower]
      ELSE s[lower] + ((r % 100) * (s[lower + 1] - s[lower])) \div 100

\* A share of a difference is at most the difference, and a greater share is not less.
LEMMA Shares ==
  ASSUME NEW d \in Nat
  PROVE  /\ \A f \in 0..100 : (f * d) \div 100 \in Nat /\ (f * d) \div 100 <= d
         /\ \A f, g \in 0..100 : f <= g => (f * d) \div 100 <= (g * d) \div 100
         /\ \A f \in 1..99 :
              (f * d) \div 100 + ((100 - f) * d) \div 100 \in {d - 1, d}
<1>1. \A f, g \in 0..100 : f <= g => f * d \in Nat /\ g * d \in Nat /\ f * d <= g * d
  BY SMT
<1>2. \A x, y \in Nat : x <= y => x \div 100 \in Nat /\ y \div 100 \in Nat /\ x \div 100 <= y \div 100
  BY SMT
<1>3. (100 * d) \div 100 = d
  BY SMT
<1>4. \A f \in 0..100 : (f * d) \div 100 \in Nat /\ (f * d) \div 100 <= d
  BY <1>1, <1>2, <1>3
<1>5. \A f, g \in 0..100 : f <= g => (f * d) \div 100 <= (g * d) \div 100
  BY <1>1, <1>2
<1>6. ASSUME NEW f \in 1..99
      PROVE  (f * d) \div 100 + ((100 - f) * d) \div 100 \in {d - 1, d}
  <2> DEFINE x == f * d
             y == (100 - f) * d
  <2>1. x \in Nat /\ y \in Nat /\ x + y = 100 * d
    BY SMT
  <2> HIDE DEF x, y
  <2>2. x \div 100 + y \div 100 \in {d - 1, d}
    BY <2>1, SMT
  <2> QED BY <2>2 DEF x, y
<1> QED BY <1>4, <1>5, <1>6

\* A rank is a place and hundredths of the way to the next one.
LEMMA RankPlace ==
  ASSUME NEW n \in Nat \ {0}, NEW r \in 0..(100 * (n - 1))
  PROVE  /\ r \div 100 \in Nat /\ r \div 100 + 1 \in 1..n /\ r % 100 \in 0..99
         /\ r = 100 * (r \div 100) + (r % 100)
         /\ r \div 100 + 1 + 1 > n => r % 100 = 0 /\ r \div 100 + 1 = n
<1> DEFINE k == r \div 100
           f == r % 100
<1>1. k \in Nat /\ f \in 0..99 /\ r = 100 * k + f
  BY SMT
<1> HIDE DEF k, f
<1>2. /\ k \in Nat /\ k + 1 \in 1..n /\ f \in 0..99 /\ r = 100 * k + f
      /\ k + 1 + 1 > n => f = 0 /\ k + 1 = n
  BY <1>1
<1> QED BY <1>2 DEF k, f

\* The value at a rank is between those of the places around it.
LEMMA InterpolatedBetween ==
  ASSUME NEW s \in Seq(Nat), s # <<>>, NonDecreasing(s), NEW r \in 0..(100 * (Len(s) - 1))
  PROVE  LET k == r \div 100 + 1
         IN  /\ Interpolated(s, r) \in Nat /\ s[k] <= Interpolated(s, r)
             /\ k < Len(s) => Interpolated(s, r) <= s[k + 1]
<1> DEFINE n == Len(s)
           k == r \div 100 + 1
           f == r % 100
           d == s[k + 1] - s[k]
<1>1. n \in Nat \ {0} /\ \A i \in 1..n : s[i] \in Nat
  BY LenProperties, ElementOfSeq, EmptySeq
<1>2. k \in 1..n /\ f \in 0..99
  BY <1>1, RankPlace
<1>3. Interpolated(s, r) = IF k + 1 > n THEN s[k] ELSE s[k] + (f * d) \div 100
  BY DEF Interpolated
<1> HIDE DEF k, f, n
<1>4. CASE k + 1 > n
  BY <1>1, <1>2, <1>3, <1>4 DEF n, k
<1>5. CASE ~(k + 1 > n)
  <2>1. k + 1 \in 1..n /\ k <= k + 1
    BY <1>1, <1>2, <1>5
  <2>2. s[k] \in Nat /\ s[k + 1] \in Nat /\ s[k] <= s[k + 1]
    BY <1>1, <1>2, <2>1 DEF NonDecreasing, n
  <2>3. d \in Nat /\ s[k] + d = s[k + 1]
    BY <2>2
  <2> HIDE DEF d
  <2>4. (f * d) \div 100 \in Nat /\ (f * d) \div 100 <= d
    <3>1. f \in 0..100
      BY <1>2
    <3> QED BY <2>3, <3>1, Shares
  <2> DEFINE x == (f * d) \div 100
  <2> HIDE DEF x
  <2>5. Interpolated(s, r) = s[k] + x /\ x \in Nat /\ x <= d
    BY <1>3, <1>5, <2>4 DEF x
  <2>6. /\ Interpolated(s, r) \in Nat /\ s[k] <= Interpolated(s, r)
        /\ Interpolated(s, r) <= s[k + 1]
    <3> DEFINE a == s[k]
               b == s[k + 1]
               v == Interpolated(s, r)
    <3>1. a \in Nat /\ b = a + d /\ v = a + x
      BY <2>2, <2>3, <2>5
    <3> HIDE DEF a, b, v
    <3>2. v \in Nat /\ a <= v /\ v <= b
      BY <2>3, <2>5, <3>1
    <3> QED BY <3>2 DEF a, b, v
  <2> QED BY <2>6 DEF k
<1> QED BY <1>4, <1>5

\* A higher rank has no lower value.
LEMMA InterpolatedGrows ==
  ASSUME NEW s \in Seq(Nat), s # <<>>, NonDecreasing(s),
         NEW r \in 0..(100 * (Len(s) - 1)), NEW q \in 0..(100 * (Len(s) - 1)), r <= q
  PROVE  Interpolated(s, r) <= Interpolated(s, q)
<1> DEFINE n == Len(s)
           k == r \div 100 + 1
           l == q \div 100 + 1
<1>1. n \in Nat \ {0} /\ \A i \in 1..n : s[i] \in Nat
  BY LenProperties, ElementOfSeq, EmptySeq
<1>2. k \in 1..n /\ l \in 1..n /\ k <= l /\ (k = l => r % 100 <= q % 100)
      /\ r % 100 \in 0..99 /\ q % 100 \in 0..99
  <2>1. r \in Nat /\ q \in Nat
    BY <1>1
  <2> HIDE DEF n
  <2>2. /\ r \div 100 \in Nat /\ q \div 100 \in Nat
        /\ r \div 100 + 1 \in 1..n /\ r % 100 \in 0..99 /\ r = 100 * (r \div 100) + (r % 100)
        /\ q \div 100 + 1 \in 1..n /\ q % 100 \in 0..99 /\ q = 100 * (q \div 100) + (q % 100)
    <3>1. r \in 0..(100 * (n - 1)) /\ q \in 0..(100 * (n - 1))
      BY DEF n
    <3> QED BY <1>1, <3>1, RankPlace
  <2> DEFINE a == r \div 100
             b == q \div 100
             f == r % 100
             g == q % 100
  <2>3. /\ a \in Nat /\ b \in Nat /\ a + 1 \in 1..n /\ f \in 0..99 /\ r = 100 * a + f
        /\ b + 1 \in 1..n /\ g \in 0..99 /\ q = 100 * b + g
    BY <2>2
  <2> HIDE DEF a, b, f, g
  <2>4. a + 1 <= b + 1 /\ (a + 1 = b + 1 => f <= g)
    BY <1>1, <2>1, <2>3
  <2> QED BY <2>3, <2>4 DEF a, b, f, g
<1>3. /\ Interpolated(s, r) \in Nat /\ Interpolated(s, q) \in Nat /\ s[l] <= Interpolated(s, q)
      /\ k < n => Interpolated(s, r) <= s[k + 1]
  BY InterpolatedBetween
<1>4. /\ Interpolated(s, r) = IF k + 1 > n THEN s[k] ELSE s[k] + ((r % 100) * (s[k + 1] - s[k])) \div 100
      /\ Interpolated(s, q) = IF l + 1 > n THEN s[l] ELSE s[l] + ((q % 100) * (s[l + 1] - s[l])) \div 100
  BY DEF Interpolated
<1>5. \A i, j \in 1..n : i <= j => s[i] <= s[j]
  BY DEF NonDecreasing
<1> HIDE DEF n, k, l
<1>6. CASE k < l
  <2>1. k + 1 \in 1..n /\ k + 1 <= l /\ k < n
    BY <1>1, <1>2, <1>6
  <2>2. s[k + 1] <= s[l] /\ s[k + 1] \in Nat /\ s[l] \in Nat
    BY <1>1, <1>2, <1>5, <2>1
  <2> QED BY <1>3, <2>1, <2>2
<1>7. CASE k = l /\ k + 1 > n
  BY <1>1, <1>2, <1>4, <1>7
<1>8. CASE k = l /\ ~(k + 1 > n)
  <2>1. k + 1 \in 1..n /\ k <= k + 1
    BY <1>1, <1>2, <1>8
  <2> DEFINE d == s[k + 1] - s[k]
             f == r % 100
             g == q % 100
  <2>2. d \in Nat /\ s[k] \in Nat /\ f \in 0..100 /\ g \in 0..100 /\ f <= g
    <3>1. s[k] \in Nat /\ s[k + 1] \in Nat /\ s[k] <= s[k + 1]
      BY <1>1, <1>2, <1>5, <2>1
    <3> QED BY <1>2, <1>8, <3>1
  <2>3. Interpolated(s, r) = s[k] + (f * d) \div 100 /\ Interpolated(s, q) = s[k] + (g * d) \div 100
    BY <1>4, <1>8
  <2> HIDE DEF d, f, g
  <2>4. /\ (f * d) \div 100 \in Nat /\ (g * d) \div 100 \in Nat
        /\ (f * d) \div 100 <= (g * d) \div 100
    BY <2>2, Shares
  <2> DEFINE x == (f * d) \div 100
             y == (g * d) \div 100
  <2>5. Interpolated(s, r) = s[k] + x /\ Interpolated(s, q) = s[k] + y /\ x \in Nat /\ y \in Nat /\ x <= y
    BY <2>3, <2>4
  <2> HIDE DEF x, y
  <2> QED BY <2>2, <2>5
<1> QED BY <1>1, <1>2, <1>6, <1>7, <1>8

\* Seen from above, the opposite rank has the opposite value, but for what is cut off.
LEMMA InterpolatedMirrored ==
  ASSUME NEW s \in Seq(Nat), s # <<>>, NonDecreasing(s), NEW r \in 0..(100 * (Len(s) - 1)),
         NEW c \in Nat, NEW m \in Seq(Nat), Len(m) = Len(s),
         \A i \in 1..Len(s) : m[i] = c - s[Len(s) + 1 - i]
  PROVE  Interpolated(s, r) + Interpolated(m, 100 * (Len(s) - 1) - r) \in {c - 1, c}
<1> DEFINE n == Len(s)
           q == 100 * (n - 1) - r
           k == r \div 100 + 1
           l == q \div 100 + 1
           f == r % 100
           g == q % 100
<1>1. n \in Nat \ {0} /\ \A i \in 1..n : s[i] \in Nat
  BY LenProperties, ElementOfSeq, EmptySeq
<1>2. /\ k \in 1..n /\ l \in 1..n /\ f \in 0..99 /\ g \in 0..99
      /\ f = 0 => g = 0 /\ l = n + 1 - k
      /\ f # 0 => g = 100 - f /\ l = n - k /\ k + 1 \in 1..n
  <2> HIDE DEF n
  <2>1. q \in 0..(100 * (n - 1)) /\ r \in 0..(100 * (n - 1))
    BY <1>1 DEF n
  <2>2. /\ k \in 1..n /\ f \in 0..99 /\ r = 100 * (k - 1) + f
        /\ k + 1 > n => f = 0 /\ k = n
    BY <1>1, <2>1, RankPlace
  <2>3. l \in 1..n /\ g \in 0..99 /\ q = 100 * (l - 1) + g
    <3> HIDE DEF q
    <3> QED BY <1>1, <2>1, RankPlace
  <2>4. 100 * (k - 1) + f + 100 * (l - 1) + g = 100 * (n - 1)
    <3> HIDE DEF k, l, f, g
    <3> QED BY <1>1, <2>1, <2>2, <2>3
  <2> HIDE DEF k, l, f, g
  <2>5. CASE f = 0
    <3>1. 100 * (k + l - n - 1) + g = 0 /\ k + l - n - 1 \in Int
      BY <1>1, <2>2, <2>3, <2>4, <2>5
    <3>2. g = 0 /\ k + l - n - 1 = 0
      BY <2>3, <3>1
    <3> QED BY <1>1, <2>2, <2>3, <2>5, <3>2
  <2>6. CASE f # 0
    <3>1. 100 * (k + l - n - 1) + (f + g) = 0 /\ k + l - n - 1 \in Int /\ f + g \in 1..198
      BY <1>1, <2>2, <2>3, <2>4, <2>6
    <3>2. f + g = 100 /\ k + l - n = 0
      <4> DEFINE w == k + l - n - 1
                 v == f + g
      <4>1. w \in Int /\ v \in 1..198 /\ 100 * w + v = 0
        BY <3>1
      <4> HIDE DEF w, v
      <4>2. ~(w >= 0) /\ ~(w <= 0 - 2)
        BY <4>1
      <4>3. v = 100 /\ w + 1 = 0
        BY <4>1, <4>2
      <4>4. f + g = 100 /\ (k + l - n - 1) + 1 = 0
        BY <4>3 DEF w, v
      <4> QED BY <1>1, <2>2, <2>3, <4>4
    <3> QED BY <1>1, <2>2, <2>3, <2>6, <3>2
  <2> QED BY <2>5, <2>6
<1>3. /\ Interpolated(s, r) = IF k + 1 > n THEN s[k] ELSE s[k] + (f * (s[k + 1] - s[k])) \div 100
      /\ Interpolated(m, q) = IF l + 1 > n THEN m[l] ELSE m[l] + (g * (m[l + 1] - m[l])) \div 100
  BY DEF Interpolated
<1>4. \A i \in 1..n : n + 1 - i \in 1..n /\ m[i] = c - s[n + 1 - i] /\ m[i] \in Nat
  <2>1. \A i \in 1..n : m[i] \in Nat
    BY LenProperties, ElementOfSeq
  <2> QED BY <1>1, <2>1
<1>5. \A i, j \in 1..n : i <= j => s[i] <= s[j]
  BY DEF NonDecreasing
<1> HIDE DEF n, q, k, l, f, g
<1>6. CASE f = 0
  <2>1. \A d \in Int : (0 * d) \div 100 = 0
    BY SMT
  <2>2. Interpolated(s, r) = s[k]
    <3>1. CASE k + 1 > n
      BY <1>3, <3>1
    <3>2. CASE ~(k + 1 > n)
      <4>1. k + 1 \in 1..n
        BY <1>1, <1>2, <3>2
      <4>2. s[k + 1] \in Nat /\ s[k] \in Nat
        BY <1>1, <1>2, <4>1
      <4>3. s[k + 1] - s[k] \in Int /\ s[k] + 0 = s[k]
        <5>1. \A a, b \in Nat : b - a \in Int /\ a + 0 = a
          OBVIOUS
        <5> QED BY <4>2, <5>1
      <4>4. Interpolated(s, r) = s[k] + (0 * (s[k + 1] - s[k])) \div 100
        BY <1>3, <1>6, <3>2
      <4> QED BY <2>1, <4>3, <4>4
    <3> QED BY <3>1, <3>2
  <2>3. Interpolated(m, q) = m[l]
    <3>1. CASE l + 1 > n
      BY <1>3, <3>1
    <3>2. CASE ~(l + 1 > n)
      <4>1. l + 1 \in 1..n
        BY <1>1, <1>2, <3>2
      <4>2. m[l + 1] \in Nat /\ m[l] \in Nat
        BY <1>2, <1>4, <4>1
      <4>3. m[l + 1] - m[l] \in Int /\ m[l] + 0 = m[l]
        BY <4>2
      <4>4. Interpolated(m, q) = m[l] + (0 * (m[l + 1] - m[l])) \div 100
        BY <1>2, <1>3, <1>6, <3>2
      <4> QED BY <2>1, <4>3, <4>4
    <3> QED BY <3>1, <3>2
  <2>4. n + 1 - l = k
    BY <1>1, <1>2, <1>6
  <2>5. m[l] = c - s[k] /\ s[k] \in Nat
    BY <1>1, <1>2, <1>4, <2>4
  <2>6. Interpolated(s, r) + Interpolated(m, q) = c
    BY <2>2, <2>3, <2>5
  <2> QED BY <2>6 DEF q, n
<1>7. CASE f # 0
  <2>1. /\ l + 1 \in 1..n /\ n + 1 - l = k + 1 /\ n + 1 - (l + 1) = k
        /\ ~(k + 1 > n) /\ ~(l + 1 > n) /\ f \in 1..99 /\ k <= k + 1
    BY <1>1, <1>2, <1>7
  <2> DEFINE a == s[k]
             b == s[k + 1]
             d == b - a
  <2>2. a \in Nat /\ b \in Nat /\ d \in Nat
    <3>1. s[k] \in Nat /\ s[k + 1] \in Nat /\ s[k] <= s[k + 1]
      BY <1>1, <1>2, <1>5, <1>7, <2>1
    <3> QED BY <3>1
  <2>3. m[l] = c - b /\ m[l + 1] = c - a
    BY <1>2, <1>4, <2>1
  <2>4. m[l + 1] - m[l] = d
    <3> DEFINE u == m[l]
               w == m[l + 1]
    <3>1. u = c - b /\ w = c - a /\ d = b - a
      BY <2>3
    <3> HIDE DEF a, b, u, w, d
    <3>2. w - u = d
      BY <2>2, <3>1
    <3> QED BY <3>2 DEF u, w
  <2>5. /\ Interpolated(s, r) = a + (f * d) \div 100
        /\ Interpolated(m, q) = (c - b) + ((100 - f) * d) \div 100
    BY <1>2, <1>3, <1>7, <2>1, <2>3, <2>4
  <2> HIDE DEF a, b, d
  <2>6. (f * d) \div 100 + ((100 - f) * d) \div 100 \in {d - 1, d}
    BY <2>1, <2>2, Shares
  <2>7. (f * d) \div 100 \in Nat /\ ((100 - f) * d) \div 100 \in Nat
    <3>1. f \in 0..100 /\ 100 - f \in 0..100
      BY <2>1
    <3> QED BY <2>2, <3>1, Shares
  <2> DEFINE x == (f * d) \div 100
             y == ((100 - f) * d) \div 100
  <2>8. /\ Interpolated(s, r) = a + x /\ Interpolated(m, q) = (c - b) + y
        /\ x \in Nat /\ y \in Nat /\ x + y \in {d - 1, d}
    BY <2>5, <2>6, <2>7
  <2> HIDE DEF x, y
  <2>9. d = b - a
    BY DEF d
  <2>10. Interpolated(s, r) + Interpolated(m, q) \in {c - 1, c}
    BY <2>2, <2>8, <2>9
  <2> QED BY <2>10 DEF q, n
<1> QED BY <1>6, <1>7

-----------------------------------------------------------------------------
(* The latency summary *)

\* What the walk reads of a timestamp.
Stamps == [type : {ts[v].type : v \in DOMAIN ts}, label : STRING, sinceLast : Nat]

\* The timestamps of a transaction, and what is below it as h has it.
OwnStamps(v) ==
  [i \in DOMAIN ts[v].timestamps |->
     [type |-> ts[v].type, label |-> ts[v].timestamps[i].label,
      sinceLast |-> ts[v].timestamps[i].sinceLast]]
UnderStamps(h, v) ==
  [i \in DOMAIN ts[v].links |->
     IF L!FoundChild(ts, v, ts[v].links[i]) THEN h[ts[v].links[i]] ELSE <<>>]

\* w has what is walked to a depth.
Walks(w) ==
  /\ \A root \in DOMAIN ts : L!Walked(root) = w[Cardinality(DOMAIN ts)][root]
  /\ \A i \in 0..Cardinality(DOMAIN ts) : w[i] \in [DOMAIN ts -> Seq(Stamps)]
  /\ \A i \in 1..Cardinality(DOMAIN ts) : \A v \in DOMAIN ts :
       /\ UnderStamps(w[i - 1], v) \in Seq(Seq(Stamps))
       /\ w[i][v] = OwnStamps(v) \o FlattenSeq(UnderStamps(w[i - 1], v))

\* A set with timestamps and links.
LEMMA TimedSet ==
  ASSUME ts \in TimedSets
  PROVE  /\ IsFiniteSet(DOMAIN ts) /\ 0 \notin DOMAIN ts /\ DOMAIN ts \in SUBSET Nat
         /\ Cardinality(DOMAIN ts) \in Nat
         /\ \A v \in DOMAIN ts :
              /\ Len(ts[v].links) \in Nat /\ DOMAIN ts[v].links = 1..Len(ts[v].links)
              /\ Len(ts[v].timestamps) \in Nat
              /\ DOMAIN ts[v].timestamps = 1..Len(ts[v].timestamps)
              /\ \A i \in DOMAIN ts[v].timestamps :
                   ts[v].timestamps[i] \in [label : STRING, sinceLast : Nat]
              /\ OwnStamps(v) \in Seq(Stamps) /\ Len(OwnStamps(v)) = Len(ts[v].timestamps)
<1>1. DOMAIN ts \subseteq VXIDs
  BY TimesAssumption
<1>2. /\ IsFiniteSet(DOMAIN ts) /\ 0 \notin DOMAIN ts /\ DOMAIN ts \in SUBSET Nat
      /\ Cardinality(DOMAIN ts) \in Nat
  BY <1>1, VXIDsAssumption, FS_Subset, FS_CardinalityType
<1>3. ASSUME NEW v \in DOMAIN ts
      PROVE  /\ Len(ts[v].links) \in Nat /\ DOMAIN ts[v].links = 1..Len(ts[v].links)
             /\ Len(ts[v].timestamps) \in Nat
             /\ DOMAIN ts[v].timestamps = 1..Len(ts[v].timestamps)
             /\ \A i \in DOMAIN ts[v].timestamps :
                  ts[v].timestamps[i] \in [label : STRING, sinceLast : Nat]
             /\ OwnStamps(v) \in Seq(Stamps) /\ Len(OwnStamps(v)) = Len(ts[v].timestamps)
  <2> DEFINE q == ts[v].timestamps
             m == Len(q)
             own == OwnStamps(v)
  <2>1. Len(ts[v].links) \in Nat /\ DOMAIN ts[v].links = 1..Len(ts[v].links)
    BY TimesAssumption, LenProperties
  <2>2. m \in Nat /\ DOMAIN q = 1..m /\ \A i \in 1..m : q[i] \in [label : STRING, sinceLast : Nat]
    BY TimesAssumption, LenProperties, ElementOfSeq
  <2>3. own \in [1..m -> Stamps]
    <3> HIDE DEF m
    <3> QED BY <2>2 DEF Stamps, OwnStamps
  <2> HIDE DEF own, m
  <2>4. own \in Seq(Stamps) /\ DOMAIN own = 1..m
    BY <2>2, <2>3, IsASeq
  <2>5. Len(own) = m
    BY <2>2, <2>4, LenProperties
  <2> QED BY <2>1, <2>2, <2>4, <2>5 DEF own, m
<1> QED BY <1>2, <1>3

\* The walk comes by timestamps of the set and nothing else, one transaction after another.
LEMMA WalkDeepens ==
  ASSUME ts \in TimedSets
  PROVE  \E w : Walks(w)
<1> DEFINE D == DOMAIN ts
           n == Cardinality(D)
           S == [D -> Seq(Stamps)]
           start == [v \in D |-> <<>>]
           down(h) == [v \in D |-> OwnStamps(v) \o FlattenSeq(UnderStamps(h, v))]
           Body(w) == [depth \in 0..n |-> [v \in D |->
             IF depth = 0 THEN <<>>
             ELSE OwnStamps(v) \o FlattenSeq(UnderStamps(w[depth - 1], v))]]
<1>1. n \in Nat
  BY TimedSet
<1>2. start \in S
  BY EmptySeq
<1>3. \A v \in D : OwnStamps(v) \in Seq(Stamps)
  BY TimedSet
<1>4. \A h \in S : \A v \in D : /\ UnderStamps(h, v) \in Seq(Seq(Stamps))
                                /\ FlattenSeq(UnderStamps(h, v)) \in Seq(Stamps)
  <2> TAKE h \in S
  <2> TAKE v \in D
  <2> DEFINE q == ts[v].links
             m == Len(q)
             u == UnderStamps(h, v)
  <2>1. m \in Nat /\ DOMAIN q = 1..m
    BY TimedSet
  <2>2. <<>> \in Seq(Stamps)
    BY EmptySeq
  <2>3. u \in [1..m -> Seq(Stamps)]
    <3> HIDE DEF m
    <3>1. \A i \in 1..m : L!FoundChild(ts, v, q[i]) => h[q[i]] \in Seq(Stamps)
      BY DEF L!FoundChild
    <3> QED BY <2>1, <2>2, <3>1 DEF UnderStamps
  <2>4. u \in Seq(Seq(Stamps))
    <3> HIDE DEF u, m
    <3> QED BY <2>1, <2>3, IsASeq
  <2> HIDE DEF u
  <2>5. FlattenSeq(u) \in Seq(Stamps)
    <3>1. Len(u) \in 0..Len(u)
      BY <2>4, LenProperties
    <3> QED BY <2>4, <3>1, FlattenedSeq
  <2> QED BY <2>4, <2>5 DEF u
<1>5. \A h \in S : down(h) \in S
  BY <1>3, <1>4, ConcatProperties
<1> DEFINE step == [i \in 1..n |-> [h \in S |-> down(h)]]
<1>6. PICK f : Computes(f, n, S, start, step)
  <2> HIDE DEF S, start, down, n
  <2>1. [h \in S |-> down(h)] \in [S -> S]
    BY <1>5
  <2>2. step \in [1..n -> [S -> S]]
    BY <2>1
  <2> HIDE DEF step
  <2> QED BY <1>1, <1>2, <2>2, Recursion
<1>7. \A i \in 1..n : i - 1 \in 0..n /\ f[i] = down(f[i - 1])
  <2>1. \A i \in 1..n : i - 1 \in 0..n
    BY <1>1
  <2> HIDE DEF S, start, down, n
  <2> QED BY <1>6, <2>1 DEF Computes
<1>8. f = Body(f)
  <2>1. ASSUME NEW i \in 0..n
        PROVE  f[i] = Body(f)[i]
    <3>1. CASE i = 0
      BY <1>6, <3>1 DEF Computes
    <3>2. CASE i # 0
      <4>1. i \in 1..n
        BY <1>1, <3>2
      <4>2. f[i] = down(f[i - 1])
        BY <1>7, <4>1
      <4> QED BY <3>2, <4>2
    <3> QED BY <3>1, <3>2
  <2>2. DOMAIN f = 0..n /\ DOMAIN Body(f) = 0..n /\ f = [i \in 0..n |-> f[i]]
    BY <1>6 DEF Computes
  <2>3. Body(f) = [i \in 0..n |-> Body(f)[i]]
    OBVIOUS
  <2> HIDE DEF Body, n
  <2> QED BY <2>1, <2>2, <2>3
<1> DEFINE w == CHOOSE h : h = Body(h)
<1>9. w = Body(w)
  <2> HIDE DEF Body
  <2> QED BY <1>8
<1>10. ASSUME NEW root \in D
       PROVE  L!Walked(root) = w[n][root]
  BY DEF L!Walked, L!Cardinality, Cardinality, OwnStamps, UnderStamps, L!FlattenSeq, FlattenSeq
<1> DEFINE Met == {i \in 0..n : w[i] \in S}
<1>11. 0 \in Met
  <2>1. 0 \in 0..n
    BY <1>1
  <2>2. w[0] = start
    <3> HIDE DEF w
    <3> QED BY <1>9, <2>1
  <2> HIDE DEF w, start, S
  <2> QED BY <1>2, <2>1, <2>2
<1>12. ASSUME NEW i \in 0..n, i < n
       PROVE  i + 1 \in 0..n /\ w[i + 1] = down(w[i])
  <2>1. i + 1 \in 0..n /\ i + 1 # 0 /\ (i + 1) - 1 = i
    <3> HIDE DEF n
    <3> QED BY <1>1, <1>12
  <2> HIDE DEF w, n
  <2> QED BY <1>9, <2>1
<1>13. \A i \in 0..n : i \in Met /\ i < n => i + 1 \in Met
  <2> HIDE DEF w, down, S, n
  <2> QED BY <1>5, <1>12
<1>14. \A i \in 0..n : w[i] \in S
  <2> HIDE DEF Met
  <2>1. 0..n \subseteq Met
    BY <1>1, <1>11, <1>13, UpTo
  <2> QED BY <2>1 DEF Met
<1>15. ASSUME NEW i \in 1..n, NEW v \in D
       PROVE  /\ UnderStamps(w[i - 1], v) \in Seq(Seq(Stamps))
              /\ w[i][v] = OwnStamps(v) \o FlattenSeq(UnderStamps(w[i - 1], v))
  <2>1. i - 1 \in 0..n /\ i - 1 < n /\ (i - 1) + 1 = i
    <3> HIDE DEF n
    <3> QED BY <1>1
  <2> HIDE DEF w, n, S
  <2>2. w[i] = down(w[i - 1]) /\ w[i - 1] \in S
    BY <1>12, <1>14, <2>1
  <2> QED BY <1>4, <2>2
<1> HIDE DEF w
<1>16. Walks(w)
  BY <1>10, <1>14, <1>15 DEF Walks
<1> QED BY <1>16

\* So do the walks the summary starts.
LEMMA WalkedStamps ==
  ASSUME ts \in TimedSets, NEW root \in DOMAIN ts
  PROVE  L!Walked(root) \in Seq(Stamps)
<1>1. PICK w : Walks(w)
  BY WalkDeepens
<1>2. Cardinality(DOMAIN ts) \in 0..Cardinality(DOMAIN ts)
  BY TimedSet
<1> QED BY <1>1, <1>2 DEF Walks

\* Each counter holds sorted numbers.
SortedCounter(values) == values \in Seq(Nat) /\ values # <<>> /\ NonDecreasing(values)

\* What has been read is of the set, and every counter is sorted.
LatencyInv ==
  /\ ts \in TimedSets
  /\ roots \in Seq(DOMAIN ts)
  /\ stamps \in Seq(Stamps)
  /\ \A name \in DOMAIN tsEvents : SortedCounter(tsEvents[name])

Latency == view = "latency" => LatencyInv

\* A counter stays sorted when a value is added.
LEMMA AddedIsSorted ==
  ASSUME NEW values \in Seq(Nat), NEW d \in Nat
  PROVE  SortedCounter(L!AddLatency(values, d))
<1> DEFINE s == Append(values, d)
<1>1. s \in Seq(Nat) /\ s # <<>>
  BY AppendProperties
<1> HIDE DEF s
<1>2. /\ L!Ascending(s) \in Seq(Nat) /\ Len(L!Ascending(s)) = Len(s)
      /\ NonDecreasing(L!Ascending(s))
  BY <1>1, AscendingSorts
<1>3. L!Ascending(s) # <<>>
  <2>1. Len(s) \in Nat \ {0} /\ Len(<<>>) = 0
    BY <1>1, EmptySeq
  <2> QED BY <1>2, <2>1
<1>4. SortedCounter(L!Ascending(s))
  BY <1>2, <1>3 DEF SortedCounter
<1> QED BY <1>4 DEF L!AddLatency, s

\* At first there is no counter,
LEMMA LatencyInit ==
  ASSUME Init
  PROVE  Latency
<1> SUFFICES ASSUME view = "latency"
             PROVE  LatencyInv
  BY DEF Latency
<1> DEFINE R == {RootParent(ts, v, FALSE) : v \in DOMAIN ts} \ {0}
<1>1. /\ ts \in TimedSets /\ stamps = <<>> /\ tsEvents = [name \in {} |-> <<>>]
      /\ roots = L!Sorted({L!RootParent(ts, v, FALSE) : v \in DOMAIN ts} \ {0})
  BY DEF Init, L!Init
<1>2. \A S : L!Sorted(S) = Sorted(S)
  BY DEF L!Sorted, Sorted, L!Cardinality, Cardinality
<1>3. \A v : L!RootParent(ts, v, FALSE) = RootParent(ts, v, FALSE)
  BY DEF L!RootParent, RootParent, L!Found, Found
<1>4. roots = Sorted(R)
  BY <1>1, <1>2, <1>3
<1>5. IsFiniteSet(DOMAIN ts) /\ 0 \notin DOMAIN ts /\ DOMAIN ts \in SUBSET Nat
  <2>1. DOMAIN ts \subseteq VXIDs
    BY <1>1, TimesAssumption
  <2> QED BY <2>1, VXIDsAssumption, FS_Subset
<1>6. R \subseteq DOMAIN ts
  BY <1>5, RootParentIsRoot
<1>7. Sorted(R) \in Seq(R)
  <2>1. R \in SUBSET Nat /\ IsFiniteSet(R)
    BY <1>5, <1>6, FS_Subset
  <2> HIDE DEF R
  <2> QED BY <2>1, SortedHasAll
<1>8. roots \in Seq(DOMAIN ts)
  <2> HIDE DEF R
  <2> QED BY <1>4, <1>6, <1>7, SeqMonotonic
<1>9. stamps \in Seq(Stamps)
  BY <1>1, EmptySeq
<1>10. \A name \in DOMAIN tsEvents : SortedCounter(tsEvents[name])
  <2>1. DOMAIN tsEvents = {}
    BY <1>1
  <2> QED BY <2>1
<1> QED BY <1>1, <1>8, <1>9, <1>10 DEF LatencyInv

\* every step of the summary keeps the counters sorted,
LEMMA LatencyStep ==
  ASSUME LatencyInv, L!Next
  PROVE  LatencyInv'
<1>1. ts' = ts
  BY DEF L!Next, L!ProcessRoot, L!SkipZero, L!CountTimestamp
<1>2. Stamps' = Stamps
  BY <1>1 DEF Stamps
<1>3. CASE L!ProcessRoot
  <2>1. /\ roots # <<>> /\ stamps' = L!Walked(Head(roots)) /\ roots' = Tail(roots)
        /\ tsEvents' = tsEvents
    BY <1>3 DEF L!ProcessRoot
  <2>2. Head(roots) \in DOMAIN ts /\ Tail(roots) \in Seq(DOMAIN ts)
    BY <2>1, HeadTailProperties DEF LatencyInv
  <2>3. stamps' \in Seq(Stamps)
    BY <2>1, <2>2, WalkedStamps DEF LatencyInv
  <2> QED BY <1>1, <1>2, <2>1, <2>2, <2>3 DEF LatencyInv
<1>4. CASE L!SkipZero
  <2>1. stamps # <<>> /\ stamps' = Tail(stamps) /\ roots' = roots /\ tsEvents' = tsEvents
    BY <1>4 DEF L!SkipZero
  <2>2. Tail(stamps) \in Seq(Stamps)
    BY <2>1, HeadTailProperties DEF LatencyInv
  <2> QED BY <1>1, <1>2, <2>1, <2>2 DEF LatencyInv
<1>5. CASE L!CountTimestamp
  <2> DEFINE d == Head(stamps).sinceLast
             name == <<Head(stamps).type, Head(stamps).label>>
             old == IF name \in DOMAIN tsEvents THEN tsEvents[name] ELSE <<>>
  <2>1. /\ stamps # <<>> /\ stamps' = Tail(stamps) /\ roots' = roots
        /\ tsEvents' = [n \in DOMAIN tsEvents \cup {name} |->
                          IF n = name THEN L!AddLatency(old, d) ELSE tsEvents[n]]
    BY <1>5 DEF L!CountTimestamp
  <2>2. Head(stamps) \in Stamps /\ Tail(stamps) \in Seq(Stamps)
    BY <2>1, HeadTailProperties DEF LatencyInv
  <2>3. d \in Nat
    BY <2>2 DEF Stamps
  <2>4. old \in Seq(Nat)
    BY EmptySeq DEF LatencyInv, SortedCounter
  <2> HIDE DEF d, old, name
  <2>5. SortedCounter(L!AddLatency(old, d))
    BY <2>3, <2>4, AddedIsSorted
  <2>6. \A n \in DOMAIN tsEvents' : SortedCounter(tsEvents'[n])
    BY <2>1, <2>5 DEF LatencyInv
  <2> QED BY <1>1, <1>2, <2>1, <2>2, <2>6 DEF LatencyInv
<1> QED BY <1>3, <1>4, <1>5 DEF L!Next

\* and no other view changes them.
LEMMA LatencyNext ==
  ASSUME Latency, [Next]_vars
  PROVE  Latency'
<1> SUFFICES ASSUME view' = "latency"
             PROVE  LatencyInv'
  BY DEF Latency
<1>1. CASE RenderLatency
  BY <1>1, LatencyStep DEF RenderLatency, Latency
<1>2. CASE RenderGroups \/ RenderTimeline \/ ReqBuild
  BY <1>2 DEF RenderGroups, RenderTimeline, ReqBuild
<1>3. CASE UNCHANGED vars
  <2>1. UNCHANGED <<view, ts, roots, stamps, tsEvents>>
    BY <1>3 DEF vars, timeVars
  <2> QED BY <2>1 DEF Latency, LatencyInv, Stamps
<1> QED BY <1>1, <1>2, <1>3 DEF Next

\* A percentile is the value at the rank that is its share of the places.
LEMMA PercentileIsInterpolated ==
  ASSUME NEW s \in Seq(Nat), s # <<>>, NEW p \in 0..100
  PROVE  /\ L!Percentile(s, p) = Interpolated(s, p * (Len(s) - 1))
         /\ p * (Len(s) - 1) \in 0..(100 * (Len(s) - 1))
<1>1. Len(s) \in Nat \ {0}
  BY EmptySeq
<1>2. L!Percentile(s, p) = Interpolated(s, p * (Len(s) - 1))
  BY <1>1 DEF L!Percentile, Interpolated
<1>3. \A m \in Nat : p * m \in 0..(100 * m)
  BY SMT
<1>4. Len(s) - 1 \in Nat
  BY <1>1
<1> QED BY <1>2, <1>3, <1>4

\* What the table shows of a sorted counter agrees.
LEMMA CounterConsistent ==
  ASSUME NEW s, SortedCounter(s), NEW c, c = L!Lowest(s) + L!Highest(s)
  PROVE  /\ L!Lowest(s) <= L!Average(s) /\ L!Average(s) <= L!Highest(s)
         /\ \A p, q \in 0..100 : p <= q => L!Percentile(s, p) <= L!Percentile(s, q)
         /\ \A p \in 0..100 :
              L!Percentile(s, p) + L!Percentile(L!Mirrored(s, c), 100 - p) \in {c - 1, c}
         /\ L!Percentile(s, 0) = L!Lowest(s) /\ L!Percentile(s, 100) = L!Highest(s)
<1> DEFINE n == Len(s)
           m == L!Mirrored(s, c)
<1>1. /\ s \in Seq(Nat) /\ s # <<>> /\ NonDecreasing(s) /\ n \in Nat \ {0} /\ DOMAIN s = 1..n
      /\ \A i \in 1..n : s[i] \in Nat
  BY LenProperties, ElementOfSeq, EmptySeq DEF SortedCounter
<1>2. L!Lowest(s) = s[1] /\ L!Highest(s) = s[n] /\ 1 \in 1..n /\ n \in 1..n
  BY <1>1 DEF L!Lowest, L!Highest
<1>3. L!Lowest(s) <= L!Average(s) /\ L!Average(s) <= L!Highest(s)
  BY <1>1, AverageBetween
<1>4. ASSUME NEW p \in 0..100, NEW q \in 0..100, p <= q
      PROVE  L!Percentile(s, p) <= L!Percentile(s, q)
  <2>1. p * (n - 1) <= q * (n - 1)
    <3>1. \A j \in Nat : p * j <= q * j
      BY <1>4, SMT
    <3>2. n - 1 \in Nat
      BY <1>1
    <3> QED BY <3>1, <3>2
  <2>2. /\ L!Percentile(s, p) = Interpolated(s, p * (n - 1)) /\ p * (n - 1) \in 0..(100 * (n - 1))
        /\ L!Percentile(s, q) = Interpolated(s, q * (n - 1)) /\ q * (n - 1) \in 0..(100 * (n - 1))
    BY <1>1, PercentileIsInterpolated
  <2> QED BY <1>1, <2>1, <2>2, InterpolatedGrows
<1>5. c \in Nat /\ \A i \in 1..n : s[i] <= c
  <2>1. s[1] \in Nat /\ s[n] \in Nat /\ c = s[1] + s[n]
    BY <1>1, <1>2
  <2>2. \A i \in 1..n : i <= n
    BY <1>1
  <2>3. \A i \in 1..n : s[i] <= s[n]
    BY <1>1, <1>2, <2>2 DEF NonDecreasing
  <2>4. \A x \in Nat : x <= s[n] => x <= c
    BY <2>1
  <2> QED BY <1>1, <2>1, <2>3, <2>4
<1>6. m \in Seq(Nat) /\ Len(m) = n /\ m # <<>> /\ \A i \in 1..n : m[i] = c - s[n + 1 - i]
  <2>1. m = [i \in 1..n |-> c - s[n + 1 - i]]
    BY <1>1 DEF L!Mirrored
  <2>2. \A i \in 1..n : n + 1 - i \in 1..n
    BY <1>1
  <2>3. \A x \in Nat : x <= c => c - x \in Nat
    BY <1>5
  <2>4. m \in [1..n -> Nat]
    <3> HIDE DEF n, m
    <3> QED BY <1>1, <1>5, <2>1, <2>2, <2>3
  <2> HIDE DEF m
  <2>5. m \in Seq(Nat)
    BY <1>1, <2>4, IsASeq
  <2>6. Len(m) = n
    BY <1>1, <2>4, <2>5, LenProperties
  <2>7. m # <<>>
    BY <1>1, <2>6, EmptySeq
  <2> QED BY <2>1, <2>5, <2>6, <2>7
<1>7. ASSUME NEW p \in 0..100
      PROVE  L!Percentile(s, p) + L!Percentile(m, 100 - p) \in {c - 1, c}
  <2> HIDE DEF m, n
  <2>1. 100 - p \in 0..100
    OBVIOUS
  <2>2. /\ L!Percentile(s, p) = Interpolated(s, p * (n - 1)) /\ p * (n - 1) \in 0..(100 * (n - 1))
        /\ L!Percentile(m, 100 - p) = Interpolated(m, (100 - p) * (n - 1))
    <3>1. L!Percentile(s, p) = Interpolated(s, p * (n - 1)) /\ p * (n - 1) \in 0..(100 * (n - 1))
      BY <1>1, PercentileIsInterpolated DEF n
    <3>2. L!Percentile(m, 100 - p) = Interpolated(m, (100 - p) * (n - 1))
      BY <1>6, <2>1, PercentileIsInterpolated
    <3> QED BY <3>1, <3>2
  <2>3. (100 - p) * (n - 1) = 100 * (n - 1) - p * (n - 1)
    <3>1. \A j \in Nat : (100 - p) * j = 100 * j - p * j
      BY SMT
    <3>2. n - 1 \in Nat
      BY <1>1
    <3> QED BY <3>1, <3>2
  <2> DEFINE r == p * (n - 1)
  <2>4. /\ L!Percentile(s, p) = Interpolated(s, r) /\ r \in 0..(100 * (Len(s) - 1))
        /\ L!Percentile(m, 100 - p) = Interpolated(m, 100 * (Len(s) - 1) - r)
    BY <2>2, <2>3 DEF n
  <2> HIDE DEF r
  <2>5. Len(m) = Len(s) /\ \A i \in 1..Len(s) : m[i] = c - s[Len(s) + 1 - i]
    BY <1>6 DEF n
  <2>6. Interpolated(s, r) + Interpolated(m, 100 * (Len(s) - 1) - r) \in {c - 1, c}
    BY <1>1, <1>5, <1>6, <2>4, <2>5, InterpolatedMirrored
  <2> QED BY <2>4, <2>6
<1>8. L!Percentile(s, 0) = s[1]
  <2>1. /\ 0 * (n - 1) = 0 /\ 0 \div 100 = 0 /\ 0 % 100 = 0 /\ 0 + 1 = 1
        /\ \A d \in Int : (0 * d) \div 100 = 0
    BY <1>1, SMT
  <2>2. L!Percentile(s, 0) = IF 1 + 1 > n THEN s[1] ELSE s[1] + (0 * (s[1 + 1] - s[1])) \div 100
    BY <1>1, <2>1 DEF L!Percentile
  <2>3. CASE 1 + 1 > n
    BY <2>2, <2>3
  <2>4. CASE ~(1 + 1 > n)
    <3>1. 1 + 1 \in 1..n
      BY <1>1, <2>4
    <3>2. \A a, b \in Nat : b - a \in Int /\ a + 0 = a
      OBVIOUS
    <3>3. s[1 + 1] - s[1] \in Int /\ s[1] + 0 = s[1]
      BY <1>1, <1>2, <3>1, <3>2
    <3> QED BY <2>1, <2>2, <2>4, <3>3
  <2> QED BY <2>3, <2>4
<1>9. L!Percentile(s, 100) = s[n]
  <2>1. (100 * (n - 1)) \div 100 + 1 = n
    <3>1. \A j \in Nat : (100 * j) \div 100 = j
      BY SMT
    <3>2. n - 1 \in Nat /\ n - 1 + 1 = n
      BY <1>1
    <3> QED BY <3>1, <3>2
  <2>2. n + 1 > n
    BY <1>1
  <2> QED BY <1>1, <2>1, <2>2 DEF L!Percentile
<1> HIDE DEF n
<1> QED BY <1>2, <1>3, <1>4, <1>7, <1>8, <1>9

\* The table of latencies is consistent for every log: from the minimum over the
\* percentiles to the maximum nothing decreases, the average is between the two, and a
\* percentile is the same from below and from above but for a nanosecond that is cut
\* off (LatencyCounter; latency.go 49-119).
THEOREM PagesPercentilesConsistent == Spec => []PercentilesConsistent
<1>1. ASSUME LatencyInv
      PROVE  L!PercentilesConsistent
  <2> SUFFICES ASSUME NEW name \in DOMAIN tsEvents
               PROVE  LET values == tsEvents[name]
                          c      == L!Lowest(values) + L!Highest(values)
                      IN  /\ L!Lowest(values) <= L!Average(values)
                          /\ L!Average(values) <= L!Highest(values)
                          /\ \A p \in {0, 50, 90, 99, 100} :
                               /\ \A q \in {0, 50, 90, 99, 100} :
                                    p <= q => L!Percentile(values, p) <= L!Percentile(values, q)
                               /\ L!Percentile(values, p)
                                    + L!Percentile(L!Mirrored(values, c), 100 - p) \in {c - 1, c}
                          /\ L!Percentile(values, 0) = L!Lowest(values)
                          /\ L!Percentile(values, 100) = L!Highest(values)
    BY DEF L!PercentilesConsistent
  <2>1. SortedCounter(tsEvents[name])
    BY <1>1 DEF LatencyInv
  <2>2. {0, 50, 90, 99, 100} \subseteq 0..100
    OBVIOUS
  <2> QED BY <2>1, <2>2, CounterConsistent
<1>2. Latency => PercentilesConsistent
  BY <1>1 DEF Latency, PercentilesConsistent
<1> QED BY <1>2, LatencyInit, LatencyNext, PTL DEF Spec

-----------------------------------------------------------------------------
(* What the summary counts *)

\* The timestamps e in the log of some transactions.
StampsOf(V, e) ==
  {p \in V \X Nat : p[2] \in 1..Len(ts[p[1]].timestamps) /\ OwnStamps(p[1])[p[2]] = e}

\* They are as many as are in the logs.
LEMMA OwnCount ==
  ASSUME ts \in TimedSets, NEW v \in DOMAIN ts, NEW e
  PROVE  /\ IsFiniteSet(StampsOf({v}, e))
         /\ Times(OwnStamps(v), e) = Cardinality(StampsOf({v}, e))
<1> DEFINE n == Len(ts[v].timestamps)
           A == {i \in 1..n : OwnStamps(v)[i] = e}
           P == StampsOf({v}, e)
           f == [i \in A |-> <<v, i>>]
<1>1. OwnStamps(v) \in Seq(Stamps) /\ Len(OwnStamps(v)) = n /\ n \in Nat
  BY TimedSet
<1>2. IsFiniteSet(A) /\ Times(OwnStamps(v), e) = Cardinality(A)
  BY <1>1, TimesFinite DEF Times
<1>3. \A i \in A : <<v, i>> \in P
  BY <1>1 DEF StampsOf
<1>4. \A p \in P : p[2] \in A /\ p = <<v, p[2]>>
  BY DEF StampsOf
<1>5. f \in Bijection(A, P)
  <2> HIDE DEF P, A
  <2>1. f \in [A -> P] /\ \A i, j \in A : f[i] = f[j] => i = j
    BY <1>3
  <2>2. \A p \in P : \E i \in A : f[i] = p
    BY <1>4
  <2> HIDE DEF f
  <2> QED BY <2>1, <2>2 DEF Bijection, Injection, Surjection, IsInjective
<1> HIDE DEF f, A, P
<1>6. IsFiniteSet(P) /\ Cardinality(P) = Cardinality(A)
  BY <1>2, <1>5, FS_Bijection DEF ExistsBijection
<1> QED BY <1>2, <1>6 DEF P

\* In a forest the walk comes by the timestamps of what is reachable, by each of them once.
LEMMA WalkCounts ==
  ASSUME ts \in TimedSets, Forest(ts), NEW root \in DOMAIN ts, NEW e
  PROVE  /\ IsFiniteSet(StampsOf(Reachable(ts, root), e))
         /\ Times(L!Walked(root), e) = Cardinality(StampsOf(Reachable(ts, root), e))
<1> DEFINE D == DOMAIN ts
           n == Cardinality(D)
           R(v) == Reachable(ts, v)
           Exact(s, v) == /\ IsFiniteSet(StampsOf(R(v), e))
                          /\ Times(s, e) = Cardinality(StampsOf(R(v), e))
<1>1. PICK w : Walks(w)
  BY WalkDeepens
<1>2. /\ n \in Nat /\ IsFiniteSet(D)
      /\ \A v \in D : R(v) \in SUBSET D /\ IsFiniteSet(R(v)) /\ Cardinality(R(v)) \in 0..n
  <2>1. n \in Nat /\ IsFiniteSet(D)
    BY TimedSet
  <2>2. \A v \in D : R(v) \in SUBSET D
    BY <2>1, ReachableIsClosure DEF Closure
  <2> HIDE DEF R
  <2>3. \A v \in D : /\ IsFiniteSet(R(v)) /\ Cardinality(R(v)) <= n
                     /\ Cardinality(R(v)) \in Nat
    BY <2>1, <2>2, FS_Subset, FS_CardinalityType
  <2> QED BY <2>1, <2>2, <2>3
<1> DEFINE Met == {i \in 0..n : \A v \in D : Cardinality(R(v)) <= i => Exact(w[i][v], v)}
<1>3. \A v \in D : v \in R(v) /\ Cardinality(R(v)) # 0
  <2>1. \A v \in D : v \in R(v)
    BY <1>2, SubtreesApart
  <2> HIDE DEF R
  <2> QED BY <1>2, <2>1, FS_EmptySet
<1>4. 0 \in Met
  <2>1. \A v \in D : ~(Cardinality(R(v)) <= 0)
    <3> HIDE DEF R, n
    <3> QED BY <1>2, <1>3
  <2>2. 0 \in 0..n
    BY <1>2
  <2> HIDE DEF Exact, R, n
  <2> QED BY <2>1, <2>2
<1>5. ASSUME NEW i \in 0..n, i \in Met, i < n, NEW v \in D, Cardinality(R(v)) <= i + 1
      PROVE  Exact(w[i + 1][v], v)
  <2> DEFINE own == OwnStamps(v)
             under == UnderStamps(w[i], v)
             links == ts[v].links
             m == Len(links)
             Q == [k \in 1..m |-> IF links[k] \in D THEN StampsOf(R(links[k]), e) ELSE {}]
             U == UNION {Q[k] : k \in 1..m}
  <2>1. /\ w[i + 1][v] = own \o FlattenSeq(under) /\ under \in Seq(Seq(Stamps))
        /\ own \in Seq(Stamps) /\ FlattenSeq(under) \in Seq(Stamps)
    <3>1. i + 1 \in 1..n /\ (i + 1) - 1 = i
      <4> HIDE DEF n, Met
      <4> QED BY <1>2, <1>5
    <3>2. w[i + 1][v] = own \o FlattenSeq(under) /\ under \in Seq(Seq(Stamps))
      BY <1>1, <3>1 DEF Walks
    <3> HIDE DEF under, own
    <3>3. FlattenSeq(under) \in Seq(Stamps)
      BY <3>2, FlattenedAt
    <3>4. own \in Seq(Stamps)
      BY TimedSet DEF own
    <3> QED BY <3>2, <3>3, <3>4
  <2>2. m \in Nat /\ DOMAIN links = 1..m /\ Len(under) = m /\ DOMAIN under = 1..m
    <3>1. m \in Nat /\ DOMAIN links = 1..m
      BY TimedSet
    <3>2. DOMAIN under = 1..m
      BY <3>1 DEF UnderStamps
    <3> HIDE DEF under, m
    <3> QED BY <2>1, <3>1, <3>2, LenProperties
  <2>3. \A k \in 1..m : /\ links[k] \in Children(ts, v)
                        /\ links[k] \in D <=> links[k] \in Below(ts)[v]
                        /\ under[k] = IF links[k] \in D THEN w[i][links[k]] ELSE <<>>
    BY <2>2 DEF Below, Children, Range, UnderStamps, L!FoundChild, L!Children, L!Range, L!Found
  <2>4. /\ \A x \in Below(ts)[v] : x \in D /\ v \notin R(x) /\ R(x) \subseteq R(v)
        /\ \A x, y \in Below(ts)[v] : x # y => R(x) \cap R(y) = {}
    BY <1>2, SubtreesApart
  <2>5. \A j, k \in 1..m : links[j] = links[k] => j = k
    BY <2>2 DEF Forest
  <2>6. ASSUME NEW x \in Below(ts)[v]
        PROVE  Exact(w[i][x], x)
    <3>1. R(x) \in SUBSET (R(v) \ {v}) /\ IsFiniteSet(R(v) \ {v})
          /\ Cardinality(R(v) \ {v}) = Cardinality(R(v)) - 1
      <4> HIDE DEF R
      <4> QED BY <1>2, <1>3, <2>4, FS_RemoveElement
    <3>2. Cardinality(R(x)) <= Cardinality(R(v)) - 1
      <4> HIDE DEF R
      <4> QED BY <3>1, FS_Subset
    <3>3. x \in D
      BY <2>4
    <3>4. Cardinality(R(x)) <= i
      <4> HIDE DEF R, n, Met
      <4> QED BY <1>2, <1>5, <3>2, <3>3
    <3> HIDE DEF R, Exact
    <3> QED BY <1>5, <3>3, <3>4
  <2>7. \A k \in 1..m : IsFiniteSet(Q[k]) /\ Times(under[k], e) = Cardinality(Q[k])
    <3> TAKE k \in 1..m
    <3>1. CASE links[k] \in D
      BY <2>3, <2>6, <3>1
    <3>2. CASE links[k] \notin D
      <4>1. Q[k] = {} /\ under[k] = <<>>
        BY <2>3, <3>2
      <4> HIDE DEF Q, under
      <4> QED BY <4>1, FS_EmptySet, TimesOfFew
    <3> QED BY <3>1, <3>2
  <2>8. \A V, W : V \cap W = {} => StampsOf(V, e) \cap StampsOf(W, e) = {}
    BY DEF StampsOf
  <2>9. \A j, k \in 1..m : j # k => Q[j] \cap Q[k] = {}
    <3> HIDE DEF R, under
    <3> QED BY <2>3, <2>4, <2>5, <2>8
  <2>10. IsFiniteSet(U) /\ Times(FlattenSeq(under), e) = Cardinality(U)
    <3> HIDE DEF Q, under, m
    <3>1. /\ \A k \in 1..Len(under) : IsFiniteSet(Q[k]) /\ Times(under[k], e) = Cardinality(Q[k])
          /\ \A j, k \in 1..Len(under) : j # k => Q[j] \cap Q[k] = {}
      BY <2>2, <2>7, <2>9
    <3>2. /\ IsFiniteSet(FirstOf(Q, Len(under)))
          /\ Times(FlattenSeq(under), e) = Cardinality(FirstOf(Q, Len(under)))
      BY <2>1, <3>1, TimesFlattened
    <3> QED BY <2>2, <3>2 DEF FirstOf
  <2>11. R(v) = {v} \cup UNION {R(x) : x \in Below(ts)[v]}
    <3> DEFINE X == {v} \cup UNION {R(x) : x \in Below(ts)[v]}
    <3>1. Closure(R(v), D, {v}, Below(ts))
      BY <1>2, ReachableIsClosure
    <3>2. \A x \in D : Closure(R(x), D, {x}, Below(ts))
      BY <1>2, ReachableIsClosure
    <3> HIDE DEF R
    <3>3. \A y \in X \cap D : Below(ts)[y] \subseteq X
      <4> TAKE y \in X \cap D
      <4>1. CASE y = v
        BY <1>3, <2>4, <4>1
      <4>2. CASE y # v
        <5>1. PICK x \in Below(ts)[v] : y \in R(x)
          BY <4>2
        <5>2. Below(ts)[y] \subseteq R(x)
          BY <2>4, <3>2, <5>1 DEF Closure
        <5> QED BY <5>1, <5>2
      <4> QED BY <4>1, <4>2
    <3>4. X \subseteq R(v)
      BY <1>3, <2>4
    <3>5. {v} \subseteq X
      OBVIOUS
    <3> HIDE DEF X
    <3>6. R(v) \subseteq X
      BY <3>1, <3>3, <3>5 DEF Closure
    <3> QED BY <3>4, <3>6 DEF X
  <2>12. StampsOf(R(v), e) = StampsOf({v}, e) \cup U
    <3>1. \A p \in StampsOf(R(v), e) : p \in StampsOf({v}, e) \cup U
      <4> TAKE p \in StampsOf(R(v), e)
      <4>1. p[1] \in R(v) /\ \A V : p[1] \in V => p \in StampsOf(V, e)
        BY DEF StampsOf
      <4>2. CASE p[1] = v
        BY <4>1, <4>2
      <4>3. CASE p[1] # v
        <5> HIDE DEF R
        <5>1. PICK x \in Below(ts)[v] : p[1] \in R(x)
          BY <2>11, <4>1, <4>3
        <5>2. x \in Children(ts, v) /\ x \in D
          BY DEF Below
        <5>3. PICK k \in 1..m : links[k] = x
          BY <2>2, <5>2 DEF Children, Range
        <5>4. p \in Q[k]
          BY <4>1, <5>1, <5>2, <5>3
        <5> QED BY <5>4
      <4> QED BY <4>2, <4>3
    <3>2. \A p \in U : p \in StampsOf(R(v), e)
      <4> TAKE p \in U
      <4>1. PICK k \in 1..m : p \in Q[k]
        OBVIOUS
      <4>2. links[k] \in D /\ p \in StampsOf(R(links[k]), e)
        BY <4>1
      <4>3. R(links[k]) \subseteq R(v)
        <5> HIDE DEF R, under
        <5> QED BY <2>3, <2>4, <4>2
      <4> HIDE DEF R
      <4> QED BY <4>2, <4>3 DEF StampsOf
    <3>3. \A p \in StampsOf({v}, e) : p \in StampsOf(R(v), e)
      <4> HIDE DEF R
      <4> QED BY <1>3 DEF StampsOf
    <3> HIDE DEF U, R
    <3> QED BY <3>1, <3>2, <3>3
  <2>13. StampsOf({v}, e) \cap U = {}
    <3>1. ASSUME NEW k \in 1..m
          PROVE  StampsOf({v}, e) \cap Q[k] = {}
      <4>1. links[k] \in D => {v} \cap R(links[k]) = {}
        <5> HIDE DEF R, under
        <5> QED BY <2>3, <2>4
      <4> HIDE DEF R
      <4> QED BY <2>8, <4>1
    <3> HIDE DEF Q
    <3> QED BY <3>1
  <2>14. IsFiniteSet(StampsOf({v}, e)) /\ Times(own, e) = Cardinality(StampsOf({v}, e))
    BY OwnCount
  <2> HIDE DEF U, own, under, R
  <2>15. /\ IsFiniteSet(StampsOf({v}, e) \cup U)
         /\ Cardinality(StampsOf({v}, e) \cup U)
              = Cardinality(StampsOf({v}, e)) + Cardinality(U)
    <3>1. /\ IsFiniteSet(StampsOf({v}, e) \cup U)
          /\ Cardinality(StampsOf({v}, e) \cup U)
               = Cardinality(StampsOf({v}, e)) + Cardinality(U)
                 - Cardinality(StampsOf({v}, e) \cap U)
      BY <2>10, <2>14, FS_Union
    <3>2. Cardinality(StampsOf({v}, e) \cap U) = 0
      BY <2>13, FS_EmptySet
    <3>3. Cardinality(StampsOf({v}, e)) \in Nat /\ Cardinality(U) \in Nat
      BY <2>10, <2>14, FS_CardinalityType
    <3> QED BY <3>1, <3>2, <3>3
  <2>16. Times(w[i + 1][v], e) = Times(own, e) + Times(FlattenSeq(under), e)
    BY <2>1, TimesConcat
  <2> QED BY <2>10, <2>12, <2>14, <2>15, <2>16
<1>6. \A i \in 0..n : i \in Met /\ i < n => i + 1 \in Met
  <2> HIDE DEF R, Exact
  <2>1. \A i \in 0..n : i < n => i + 1 \in 0..n
    <3> HIDE DEF n
    <3> QED BY <1>2
  <2> QED BY <1>5, <2>1
<1>7. n \in Met
  <2> HIDE DEF Met
  <2>1. n \in 0..n /\ 0..n \subseteq Met
    BY <1>2, <1>4, <1>6, UpTo
  <2> QED BY <2>1
<1>8. Exact(w[n][root], root)
  <2>1. Cardinality(R(root)) <= n
    <3> HIDE DEF R, n
    <3> QED BY <1>2
  <2> HIDE DEF Exact, R
  <2> QED BY <1>7, <2>1
<1>9. L!Walked(root) = w[n][root]
  BY <1>1 DEF Walks
<1> QED BY <1>8, <1>9

\* What the two relations must be for the counters to be right.
Agreeing == LinksMirrorParents(ts) /\ SessionsOnTop(ts) /\ Forest(ts) /\ L!RootsOnTop

RootSet == {RootParent(ts, v, FALSE) : v \in DOMAIN ts} \ {0}

\* The roots that have been walked, and the timestamps e below some roots.
Done == RootSet \ {roots[i] : i \in 1..Len(roots)}
LoggedBelow(R, e) == StampsOf(UNION {Reachable(ts, r) : r \in R}, e)

\* How often a timestamp has been counted.
Counted(e) ==
  IF <<e.type, e.label>> \in DOMAIN tsEvents
  THEN Times(tsEvents[<<e.type, e.label>>], e.sinceLast) ELSE 0

\* What has been counted, and what is about to be, is what is logged below the roots so far.
CountInv ==
  /\ LatencyInv
  /\ \A i \in 1..Len(roots) : roots[i] \in RootSet
  /\ \A i, j \in 1..Len(roots) : roots[i] = roots[j] => i = j
  /\ \A name \in DOMAIN tsEvents : Times(tsEvents[name], 0) = 0
  /\ Agreeing =>
       \A e \in Stamps : e.sinceLast # 0 =>
         /\ IsFiniteSet(LoggedBelow(Done, e))
         /\ Counted(e) + Times(stamps, e) = Cardinality(LoggedBelow(Done, e))

Counting == view = "latency" => CountInv

\* The lookups of a set are the same ones in the module of the summary.
LEMMA SameInSummary ==
  /\ \A S : L!Sorted(S) = Sorted(S)
  /\ \A s, v : L!RootParent(s, v, FALSE) = RootParent(s, v, FALSE)
  /\ \A s, v : L!Found(s, v) <=> Found(s, v)
  /\ \A s : L!LinksMirrorParents(s) <=> LinksMirrorParents(s)
  /\ \A s : L!SessionsOnTop(s) <=> SessionsOnTop(s)
  /\ \A s : L!Forest(s) <=> Forest(s)
<1>1. \A S : L!Sorted(S) = Sorted(S)
  BY DEF L!Sorted, Sorted, L!Cardinality, Cardinality
<1>2. \A s, v : L!RootParent(s, v, FALSE) = RootParent(s, v, FALSE)
  BY DEF L!RootParent, RootParent, L!Found, Found
<1>3. /\ \A s, v : L!Children(s, v) = Children(s, v)
      /\ \A s, v : L!Found(s, v) <=> Found(s, v)
      /\ \A s : L!SessionsOnTop(s) <=> SessionsOnTop(s)
  BY DEF L!Children, Children, L!Range, Range, L!Found, Found, L!SessionsOnTop, SessionsOnTop
<1>4. \A s, v : L!Reachable(s, v) = Reachable(s, v)
  BY DEF L!Reachable, Reachable, L!Children, Children, L!Range, Range, L!Cardinality, Cardinality
<1>5. \A s : L!Forest(s) <=> Forest(s)
  BY <1>3, <1>4 DEF L!Forest, Forest
<1>6. \A s : L!LinksMirrorParents(s) <=> LinksMirrorParents(s)
  BY <1>3 DEF L!LinksMirrorParents, LinksMirrorParents
<1> QED BY <1>1, <1>2, <1>3, <1>5, <1>6

\* The roots are transactions that are no sessions; where the relations agree they are on
\* top, and nothing is below two of them.
LEMMA RootsOfSummary ==
  ASSUME ts \in TimedSets
  PROVE  /\ RootSet \subseteq DOMAIN ts
         /\ \A r \in RootSet : ts[r].type # "Session"
         /\ Agreeing => \A q, r \in RootSet :
              q # r => Reachable(ts, q) \cap Reachable(ts, r) = {}
<1>1. IsFiniteSet(DOMAIN ts) /\ 0 \notin DOMAIN ts
  BY TimedSet
<1>2. ASSUME NEW r \in RootSet
      PROVE  /\ r \in DOMAIN ts /\ ts[r].type # "Session"
             /\ Agreeing => AtRoot(ts, FALSE, r)
  <2>1. PICK v \in DOMAIN ts : r = RootParent(ts, v, FALSE) /\ r # 0
    BY DEF RootSet
  <2>2. r \in DOMAIN ts /\ ts[r].type # "Session"
    BY <1>1, <2>1, RootParentIsRoot DEF Excluded
  <2>3. L!RootsOnTop => AtRoot(ts, FALSE, r)
    BY <2>1, SameInSummary DEF L!RootsOnTop, AtRoot, Excluded
  <2> QED BY <2>2, <2>3 DEF Agreeing
<1>3. ASSUME Agreeing, NEW q \in RootSet, NEW r \in RootSet, q # r
      PROVE  Reachable(ts, q) \cap Reachable(ts, r) = {}
  BY <1>1, <1>2, <1>3, RootsApart DEF Agreeing
<1> QED BY <1>2, <1>3

\* A value more is in the counter once more.
LEMMA AddedCounts ==
  ASSUME NEW values \in Seq(Nat), NEW d \in Nat, NEW x
  PROVE  Times(L!AddLatency(values, d), x) = Times(values, x) + IF d = x THEN 1 ELSE 0
<1> DEFINE s == Append(values, d)
<1>1. s \in Seq(Nat)
  BY AppendProperties
<1>2. Times(s, x) = Times(values, x) + IF d = x THEN 1 ELSE 0
  BY TimesLonger
<1> HIDE DEF s
<1>3. /\ L!Ascending(s) \in Seq(Nat) /\ Len(L!Ascending(s)) = Len(s)
      /\ \E p \in Bijection(1..Len(s), 1..Len(s)) :
           \A k \in 1..Len(s) : L!Ascending(s)[k] = s[p[k]]
  BY <1>1, AscendingSorts
<1>4. Times(L!Ascending(s), x) = Times(s, x)
  BY <1>1, <1>3, TimesMoved
<1> QED BY <1>2, <1>4 DEF L!AddLatency, s

\* At first nothing is counted and every root is still to be walked,
LEMMA CountInit ==
  ASSUME Init
  PROVE  Counting
<1> SUFFICES ASSUME view = "latency"
             PROVE  CountInv
  BY DEF Counting
<1>1. LatencyInv
  BY LatencyInit DEF Latency
<1>2. /\ ts \in TimedSets /\ stamps = <<>> /\ tsEvents = [name \in {} |-> <<>>]
      /\ roots = L!Sorted({L!RootParent(ts, v, FALSE) : v \in DOMAIN ts} \ {0})
  BY DEF Init, L!Init
<1>3. roots = Sorted(RootSet)
  BY <1>2, SameInSummary DEF RootSet
<1>4. RootSet \in SUBSET Nat /\ IsFiniteSet(RootSet)
  <2>1. RootSet \subseteq DOMAIN ts /\ IsFiniteSet(DOMAIN ts) /\ DOMAIN ts \in SUBSET Nat
    BY <1>2, RootsOfSummary, TimedSet
  <2> QED BY <2>1, FS_Subset
<1>5. /\ \A i, j \in 1..Len(roots) : roots[i] = roots[j] => i = j
      /\ {roots[i] : i \in 1..Len(roots)} = RootSet
  <2>1. /\ roots \in Seq(RootSet) /\ {roots[i] : i \in DOMAIN roots} = RootSet
        /\ \A i, j \in DOMAIN roots : roots[i] = roots[j] => i = j
    BY <1>3, <1>4, SortedHasAll
  <2>2. DOMAIN roots = 1..Len(roots)
    BY <2>1, LenProperties
  <2> QED BY <2>1, <2>2
<1>6. DOMAIN tsEvents = {}
  BY <1>2
<1>7. ASSUME NEW e
      PROVE  LoggedBelow(Done, e) = {} /\ Counted(e) = 0 /\ Times(stamps, e) = 0
  <2>1. Done = {}
    BY <1>5 DEF Done
  <2>2. LoggedBelow({}, e) = {}
    BY DEF LoggedBelow, StampsOf
  <2> QED BY <1>2, <1>6, <2>1, <2>2, TimesOfFew DEF Counted
<1> QED BY <1>1, <1>5, <1>6, <1>7, FS_EmptySet DEF CountInv

\* What a step leaves as it is.
LEMMA SameLog ==
  ASSUME ts' = ts
  PROVE  /\ Stamps' = Stamps /\ RootSet' = RootSet /\ (Agreeing' <=> Agreeing)
         /\ \A e : LoggedBelow(Done, e)' = LoggedBelow(Done', e)
<1>1. Stamps' = Stamps /\ RootSet' = RootSet
  BY DEF Stamps, RootSet
<1>2. Agreeing' <=> Agreeing
  BY DEF Agreeing, L!RootsOnTop
<1>3. \A e : LoggedBelow(Done, e)' = LoggedBelow(Done', e)
  BY DEF LoggedBelow, StampsOf, OwnStamps
<1> QED BY <1>1, <1>2, <1>3

\* the walk of a root comes by what is logged below it, which is not below another,
LEMMA RootIsWalked ==
  ASSUME CountInv, L!ProcessRoot
  PROVE  CountInv'
<1>1. /\ ts' = ts /\ stamps = <<>> /\ roots # <<>> /\ stamps' = L!Walked(Head(roots))
      /\ roots' = Tail(roots) /\ tsEvents' = tsEvents
  BY DEF L!ProcessRoot
<1>2. LatencyInv'
  BY LatencyStep DEF CountInv, L!Next
<1>3. ts \in TimedSets /\ roots \in Seq(DOMAIN ts)
  BY DEF CountInv, LatencyInv
<1> DEFINE r == Head(roots)
           n == Len(roots)
<1>4. /\ n \in Nat \ {0} /\ Len(Tail(roots)) = n - 1 /\ r = roots[1] /\ r \in DOMAIN ts
      /\ \A i \in 1..(n - 1) : Tail(roots)[i] = roots[i + 1]
  <2>1. n \in Nat \ {0}
    BY <1>1, <1>3, EmptySeq, LenProperties
  <2> QED BY <1>1, <1>3, <2>1, HeadTailProperties
<1> HIDE DEF n, r
<1>5. r \in RootSet /\ r \notin Done
  BY <1>4 DEF CountInv, Done, n
<1>6. /\ \A i \in 1..Len(roots') : roots'[i] \in RootSet
      /\ \A i, j \in 1..Len(roots') : roots'[i] = roots'[j] => i = j
  BY <1>1, <1>4 DEF CountInv, n
<1>7. Done' = Done \cup {r}
  <2>1. {roots[i] : i \in 1..n} = {r} \cup {Tail(roots)[i] : i \in 1..(n - 1)}
    <3>1. \A i \in 1..n : i = 1 \/ (i - 1 \in 1..(n - 1) /\ (i - 1) + 1 = i)
      BY <1>4
    <3>2. \A i \in 1..(n - 1) : i + 1 \in 1..n
      BY <1>4
    <3>3. 1 \in 1..n
      BY <1>4
    <3> QED BY <1>4, <3>1, <3>2, <3>3
  <2>2. r \notin {Tail(roots)[i] : i \in 1..(n - 1)}
    <3>1. \A i \in 1..(n - 1) : i + 1 \in 1..n /\ i + 1 # 1 /\ 1 \in 1..n
      BY <1>4
    <3> QED BY <1>4, <3>1 DEF CountInv, n
  <2>3. Done = RootSet \ {roots[i] : i \in 1..n}
    BY DEF Done, n
  <2>4. Done' = RootSet \ {Tail(roots)[i] : i \in 1..(n - 1)}
    BY <1>1, <1>4, SameLog DEF Done
  <2> QED BY <1>5, <2>1, <2>2, <2>3, <2>4
<1>8. ASSUME Agreeing, NEW e \in Stamps, e.sinceLast # 0
      PROVE  /\ IsFiniteSet(LoggedBelow(Done, e)')
             /\ Counted(e)' + Times(stamps, e)' = Cardinality(LoggedBelow(Done, e)')
  <2> DEFINE A == LoggedBelow(Done, e)
             E == StampsOf(Reachable(ts, r), e)
  <2>1. IsFiniteSet(A) /\ Counted(e) + Times(stamps, e) = Cardinality(A)
    BY <1>8 DEF CountInv
  <2>2. IsFiniteSet(E) /\ Times(L!Walked(r), e) = Cardinality(E)
    BY <1>3, <1>4, <1>8, WalkCounts DEF Agreeing
  <2>3. LoggedBelow(Done \cup {r}, e) = A \cup E
    BY DEF LoggedBelow, StampsOf
  <2>4. A \cap E = {}
    <3>1. \A q \in Done : Reachable(ts, q) \cap Reachable(ts, r) = {}
      BY <1>3, <1>5, <1>8, RootsOfSummary DEF Done
    <3> QED BY <3>1 DEF LoggedBelow, StampsOf
  <2>5. LoggedBelow(Done, e)' = A \cup E
    BY <1>1, <1>7, <2>3, SameLog
  <2>6. Counted(e) \in Nat /\ Counted(e)' = Counted(e) /\ Times(stamps, e) = 0
    <3>1. Counted(e) \in Nat
      BY TimesFinite DEF Counted, CountInv, LatencyInv, SortedCounter
    <3>2. Counted(e)' = Counted(e)
      BY <1>1 DEF Counted
    <3> QED BY <1>1, <3>1, <3>2, TimesOfFew
  <2>7. Times(stamps, e)' = Times(L!Walked(r), e)
    BY <1>1 DEF Times, r
  <2> HIDE DEF A, E
  <2>8. /\ IsFiniteSet(A \cup E)
        /\ Cardinality(A \cup E) = Cardinality(A) + Cardinality(E) - Cardinality(A \cap E)
    BY <2>1, <2>2, FS_Union
  <2>9. Cardinality(A \cap E) = 0 /\ Cardinality(A) \in Nat /\ Cardinality(E) \in Nat
    BY <2>1, <2>2, <2>4, FS_EmptySet, FS_CardinalityType
  <2> QED BY <2>1, <2>2, <2>5, <2>6, <2>7, <2>8, <2>9
<1>9. \A name \in DOMAIN tsEvents' : Times(tsEvents'[name], 0) = 0
  BY <1>1 DEF CountInv
<1> QED BY <1>1, <1>2, <1>6, <1>8, <1>9, SameLog DEF CountInv

\* a timestamp that took no time is not counted,
LEMMA ZeroIsSkipped ==
  ASSUME CountInv, L!SkipZero
  PROVE  CountInv'
<1>1. /\ ts' = ts /\ stamps # <<>> /\ Head(stamps).sinceLast = 0 /\ stamps' = Tail(stamps)
      /\ roots' = roots /\ tsEvents' = tsEvents
  BY DEF L!SkipZero
<1>2. LatencyInv'
  BY LatencyStep DEF CountInv, L!Next
<1>3. Done' = Done
  BY <1>1, SameLog DEF Done
<1>4. ASSUME NEW e \in Stamps, e.sinceLast # 0
      PROVE  /\ Counted(e)' = Counted(e) /\ Times(stamps, e)' = Times(stamps, e)
             /\ LoggedBelow(Done, e)' = LoggedBelow(Done, e)
  <2>1. stamps \in Seq(Stamps)
    BY DEF CountInv, LatencyInv
  <2>2. Times(stamps, e) = Times(Tail(stamps), e) + IF Head(stamps) = e THEN 1 ELSE 0
    BY <1>1, <2>1, TimesLonger
  <2>3. Head(stamps) # e
    BY <1>1, <1>4
  <2>4. Times(Tail(stamps), e) \in Nat
    BY <1>1, <2>1, HeadTailProperties, TimesFinite
  <2>5. Times(stamps, e)' = Times(Tail(stamps), e)
    BY <1>1 DEF Times
  <2>6. Counted(e)' = Counted(e)
    BY <1>1 DEF Counted
  <2> QED BY <1>1, <1>3, <2>2, <2>3, <2>4, <2>5, <2>6, SameLog
<1> QED BY <1>1, <1>2, <1>4, SameLog DEF CountInv

\* and any other is once less to come and once more in the counter of its name.
LEMMA StampIsCounted ==
  ASSUME CountInv, L!CountTimestamp
  PROVE  CountInv'
<1> DEFINE x == Head(stamps)
           d == x.sinceLast
           name == <<x.type, x.label>>
           old == IF name \in DOMAIN tsEvents THEN tsEvents[name] ELSE <<>>
<1>1. /\ ts' = ts /\ stamps # <<>> /\ d # 0 /\ stamps' = Tail(stamps) /\ roots' = roots
      /\ tsEvents' = [n \in DOMAIN tsEvents \cup {name} |->
                        IF n = name THEN L!AddLatency(old, d) ELSE tsEvents[n]]
  BY DEF L!CountTimestamp
<1>2. LatencyInv'
  BY LatencyStep DEF CountInv, L!Next
<1>3. Done' = Done
  BY <1>1, SameLog DEF Done
<1>4. /\ stamps \in Seq(Stamps) /\ x \in Stamps /\ Tail(stamps) \in Seq(Stamps)
      /\ d \in Nat /\ \A n \in DOMAIN tsEvents : tsEvents[n] \in Seq(Nat)
  <2>1. stamps \in Seq(Stamps) /\ \A n \in DOMAIN tsEvents : tsEvents[n] \in Seq(Nat)
    BY DEF CountInv, LatencyInv, SortedCounter
  <2>2. x \in Stamps /\ Tail(stamps) \in Seq(Stamps)
    BY <1>1, <2>1, HeadTailProperties
  <2> QED BY <2>1, <2>2 DEF Stamps
<1>5. old \in Seq(Nat)
  BY <1>4, EmptySeq
<1>6. \A y : Times(L!AddLatency(old, d), y) = Times(old, y) + IF d = y THEN 1 ELSE 0
  <2> HIDE DEF old, d
  <2> QED BY <1>4, <1>5, AddedCounts
<1>7. \A y : Times(old, y) = IF name \in DOMAIN tsEvents THEN Times(tsEvents[name], y) ELSE 0
  BY TimesOfFew
<1>8. \A n \in DOMAIN tsEvents' : Times(tsEvents'[n], 0) = 0
  <2>1. Times(old, 0) = 0
    BY <1>7 DEF CountInv
  <2>2. Times(L!AddLatency(old, d), 0) = 0
    <3> HIDE DEF old, d
    <3> QED BY <1>1, <1>6, <2>1
  <2> HIDE DEF old, d, name
  <2> QED BY <1>1, <2>2 DEF CountInv
<1>9. ASSUME NEW e \in Stamps, e.sinceLast # 0
      PROVE  /\ Counted(e)' + Times(stamps, e)' = Counted(e) + Times(stamps, e)
             /\ LoggedBelow(Done, e)' = LoggedBelow(Done, e)
  <2>1. Times(stamps, e) = Times(Tail(stamps), e) + IF x = e THEN 1 ELSE 0
    BY <1>1, <1>4, TimesLonger
  <2>2. Times(stamps, e)' = Times(Tail(stamps), e)
    BY <1>1 DEF Times
  <2>3. Counted(e)' = Counted(e) + IF x = e THEN 1 ELSE 0
    <3> DEFINE own == <<e.type, e.label>>
    <3>1. Counted(e)' = IF own \in DOMAIN tsEvents' THEN Times(tsEvents'[own], e.sinceLast) ELSE 0
      BY DEF Counted, Times
    <3>2. x = e <=> name = own /\ d = e.sinceLast
      BY <1>4 DEF Stamps
    <3>3. Counted(e) \in Nat
      BY <1>4, TimesFinite DEF Counted
    <3> HIDE DEF old, d
    <3>4. CASE name = own
      <4>1. Counted(e) = Times(old, e.sinceLast)
        BY <1>7, <3>4 DEF Counted
      <4>2. Counted(e)' = Times(L!AddLatency(old, d), e.sinceLast)
        <5> HIDE DEF name, own
        <5> QED BY <1>1, <3>1, <3>4
      <4> QED BY <1>6, <3>2, <3>4, <4>1, <4>2
    <3>5. CASE name # own
      <4>1. Counted(e)' = Counted(e)
        BY <1>1, <3>1, <3>5 DEF Counted
      <4> QED BY <3>2, <3>3, <3>5, <4>1
    <3> QED BY <3>4, <3>5
  <2>4. Counted(e) \in Nat /\ Times(Tail(stamps), e) \in Nat
    BY <1>4, TimesFinite DEF Counted
  <2>5. LoggedBelow(Done, e)' = LoggedBelow(Done, e)
    BY <1>1, <1>3, SameLog
  <2> HIDE DEF x
  <2> QED BY <2>1, <2>2, <2>3, <2>4, <2>5
<1> HIDE DEF x, d, name, old
<1> QED BY <1>1, <1>2, <1>8, <1>9, SameLog DEF CountInv

\* Every step of the page keeps the counts right.
LEMMA CountNext ==
  ASSUME Counting, [Next]_vars
  PROVE  Counting'
<1> SUFFICES ASSUME view' = "latency"
             PROVE  CountInv'
  BY DEF Counting
<1>1. CASE RenderLatency
  <2>1. CountInv /\ L!Next
    BY <1>1 DEF RenderLatency, Counting
  <2> QED BY <2>1, RootIsWalked, ZeroIsSkipped, StampIsCounted DEF L!Next
<1>2. CASE RenderGroups \/ RenderTimeline \/ ReqBuild
  BY <1>2 DEF RenderGroups, RenderTimeline, ReqBuild
<1>3. CASE UNCHANGED vars
  <2>1. UNCHANGED <<view, ts, roots, stamps, tsEvents>>
    BY <1>3 DEF vars, timeVars
  <2>2. CountInv
    BY <2>1 DEF Counting
  <2>3. LatencyInv'
    BY <2>1, <2>2 DEF CountInv, LatencyInv, Stamps
  <2>4. Done' = Done
    BY <2>1, SameLog DEF Done
  <2>5. \A e : /\ Counted(e)' = Counted(e) /\ Times(stamps, e)' = Times(stamps, e)
               /\ LoggedBelow(Done, e)' = LoggedBelow(Done, e)
    BY <2>1, <2>4, SameLog DEF Counted, Times
  <2> QED BY <2>1, <2>2, <2>3, <2>5, SameLog DEF CountInv
<1> QED BY <1>1, <1>2, <1>3 DEF Next

\* When all roots have been walked, what is logged below them is all there is of the
\* transactions that are no sessions, and nothing of those that are.
LEMMA LoggedIsBelowRoots ==
  ASSUME ts \in TimedSets, Agreeing, NEW e \in Stamps
  PROVE  IF e.type = "Session" THEN LoggedBelow(RootSet, e) = {}
         ELSE L!Logged(<<e.type, e.label>>, e.sinceLast) = Cardinality(LoggedBelow(RootSet, e))
<1>1. IsFiniteSet(DOMAIN ts) /\ 0 \notin DOMAIN ts
  BY TimedSet
<1>2. \A p : p \in LoggedBelow(RootSet, e) <=>
               /\ p \in StampsOf(DOMAIN ts, e)
               /\ \E r \in RootSet : p[1] \in Reachable(ts, r)
  <2>1. \A r \in RootSet : Reachable(ts, r) \subseteq DOMAIN ts
    BY <1>1, RootsOfSummary, ReachableIsClosure DEF Closure
  <2> QED BY <2>1 DEF LoggedBelow, StampsOf
<1>3. \A p \in StampsOf(DOMAIN ts, e) : p[1] \in DOMAIN ts /\ ts[p[1]].type = e.type
  <2> TAKE p \in StampsOf(DOMAIN ts, e)
  <2>1. p[1] \in DOMAIN ts /\ p[2] \in DOMAIN ts[p[1]].timestamps /\ OwnStamps(p[1])[p[2]] = e
    BY TimedSet DEF StampsOf
  <2> QED BY <2>1 DEF OwnStamps
<1>4. CASE e.type = "Session"
  <2>1. \A r \in RootSet : \A w \in Reachable(ts, r) : ts[w].type # "Session"
    BY <1>1, RootsOfSummary, NoSessionBelow DEF Agreeing
  <2> QED BY <1>2, <1>3, <1>4, <2>1
<1>5. CASE e.type # "Session"
  <2>1. ASSUME NEW p \in StampsOf(DOMAIN ts, e)
        PROVE  \E r \in RootSet : p[1] \in Reachable(ts, r)
    <3> DEFINE v == p[1]
               r == RootParent(ts, v, FALSE)
    <3>1. v \in DOMAIN ts /\ ts[v].type # "Session"
      BY <1>3, <1>5
    <3> HIDE DEF v
    <3>2. r # 0
      BY <1>1, <3>1, RootParentIsRoot DEF Excluded
    <3>3. v \in Reachable(ts, r)
      BY <1>1, <3>1, <3>2, FoundAbove DEF Agreeing
    <3>4. r \in RootSet
      BY <3>1, <3>2 DEF RootSet
    <3> QED BY <3>3, <3>4 DEF v
  <2>2. LoggedBelow(RootSet, e) = StampsOf(DOMAIN ts, e)
    BY <1>2, <2>1
  <2> DEFINE logged == UNION {{v} \X DOMAIN ts[v].timestamps : v \in DOMAIN ts}
             X == {s \in logged :
                     /\ ts[s[1]].type = <<e.type, e.label>>[1]
                     /\ ts[s[1]].timestamps[s[2]]
                          = [label |-> <<e.type, e.label>>[2], sinceLast |-> e.sinceLast]}
  <2>3. \A p : p \in logged <=> /\ p = <<p[1], p[2]>> /\ p[1] \in DOMAIN ts
                                /\ p[2] \in DOMAIN ts[p[1]].timestamps
    OBVIOUS
  <2>4. \A v \in DOMAIN ts : \A i \in DOMAIN ts[v].timestamps :
          OwnStamps(v)[i] = e <=>
            /\ ts[v].type = e.type
            /\ ts[v].timestamps[i] = [label |-> e.label, sinceLast |-> e.sinceLast]
    <3> TAKE v \in DOMAIN ts
    <3> TAKE i \in DOMAIN ts[v].timestamps
    <3> DEFINE t == ts[v].timestamps[i]
    <3>1. t \in [label : STRING, sinceLast : Nat]
      BY TimedSet
    <3>2. OwnStamps(v)[i] = [type |-> ts[v].type, label |-> t.label, sinceLast |-> t.sinceLast]
      BY DEF OwnStamps
    <3>3. e = [type |-> e.type, label |-> e.label, sinceLast |-> e.sinceLast]
      BY DEF Stamps
    <3> HIDE DEF t
    <3>4. t = [label |-> t.label, sinceLast |-> t.sinceLast]
      BY <3>1
    <3>5. OwnStamps(v)[i] = e <=>
            ts[v].type = e.type /\ t.label = e.label /\ t.sinceLast = e.sinceLast
      BY <3>2, <3>3
    <3>6. t = [label |-> e.label, sinceLast |-> e.sinceLast] <=>
            t.label = e.label /\ t.sinceLast = e.sinceLast
      BY <3>4
    <3> QED BY <3>5, <3>6 DEF t
  <2>5. \A p : p \in StampsOf(DOMAIN ts, e) <=>
                 /\ p = <<p[1], p[2]>> /\ p[1] \in DOMAIN ts
                 /\ p[2] \in DOMAIN ts[p[1]].timestamps /\ OwnStamps(p[1])[p[2]] = e
    BY TimedSet DEF StampsOf
  <2>6. X = StampsOf(DOMAIN ts, e)
    <3> HIDE DEF logged
    <3>1. \A p : p \in X <=> /\ p \in logged /\ ts[p[1]].type = e.type
                             /\ ts[p[1]].timestamps[p[2]]
                                  = [label |-> e.label, sinceLast |-> e.sinceLast]
      OBVIOUS
    <3> HIDE DEF X
    <3> QED BY <2>3, <2>4, <2>5, <3>1
  <2>7. L!Logged(<<e.type, e.label>>, e.sinceLast) = Cardinality(X)
    BY DEF L!Logged, L!Cardinality, Cardinality
  <2> QED BY <1>5, <2>2, <2>6, <2>7
<1> QED BY <1>4, <1>5

\* Whatever is logged, and in however many trees: when the relations agree and no chain is
\* deeper than RootParent goes, every timestamp that took time is counted once under its
\* own name, and no other (latency.go, 126-155).
THEOREM PagesCountedOnce == Spec => []CountedOnce
<1>1. ASSUME CountInv
      PROVE  L!CountedOnce
  <2> SUFFICES ASSUME L!Summarised, Agreeing,
                      NEW v \in DOMAIN ts, NEW i \in DOMAIN ts[v].timestamps,
                      NEW name, name = <<ts[v].type, ts[v].timestamps[i].label>>,
                      NEW d, d = ts[v].timestamps[i].sinceLast
               PROVE  IF ts[v].type = "Session" \/ d = 0
                      THEN name \notin DOMAIN tsEvents \/ d \notin L!Range(tsEvents[name])
                      ELSE /\ name \in DOMAIN tsEvents
                           /\ L!Cardinality({k \in DOMAIN tsEvents[name] : tsEvents[name][k] = d})
                                = L!Logged(name, d)
    BY SameInSummary DEF L!CountedOnce, Agreeing
  <2>1. /\ ts \in TimedSets /\ stamps = <<>> /\ roots = <<>>
        /\ \A n \in DOMAIN tsEvents : tsEvents[n] \in Seq(Nat)
    BY <1>1 DEF CountInv, LatencyInv, SortedCounter, L!Summarised
  <2> DEFINE e == OwnStamps(v)[i]
  <2>2. i \in 1..Len(ts[v].timestamps) /\ i \in Nat /\ d \in Nat
    BY <2>1, TimedSet
  <2>3. e = [type |-> ts[v].type, label |-> ts[v].timestamps[i].label, sinceLast |-> d]
    BY DEF OwnStamps
  <2>4. e \in Stamps
    BY <2>1, <2>2, TimedSet, ElementOfSeq
  <2> HIDE DEF e
  <2>5. /\ e.type = ts[v].type /\ e.label = ts[v].timestamps[i].label /\ e.sinceLast = d
        /\ name = <<e.type, e.label>>
    BY <2>3
  <2>6. Done = RootSet
    <3>1. 1..Len(<<>>) = {}
      OBVIOUS
    <3> QED BY <2>1, <3>1 DEF Done
  <2>7. d # 0 => /\ IsFiniteSet(LoggedBelow(RootSet, e))
                 /\ Counted(e) = Cardinality(LoggedBelow(RootSet, e))
    <3>1. Counted(e) \in Nat /\ Times(stamps, e) = 0
      BY <2>1, TimesFinite, TimesOfFew DEF Counted
    <3> QED BY <1>1, <2>4, <2>5, <2>6, <3>1 DEF CountInv
  <2>8. ASSUME name \in DOMAIN tsEvents
        PROVE  /\ Counted(e) = Times(tsEvents[name], d)
               /\ L!Cardinality({k \in DOMAIN tsEvents[name] : tsEvents[name][k] = d})
                    = Times(tsEvents[name], d)
               /\ Times(tsEvents[name], d) = 0 => d \notin L!Range(tsEvents[name])
    <3> DEFINE s == tsEvents[name]
               A == {k \in 1..Len(s) : s[k] = d}
    <3>1. s \in Seq(Nat) /\ DOMAIN s = 1..Len(s)
      BY <2>1, <2>8, LenProperties
    <3>2. Counted(e) = Times(s, d)
      BY <2>5, <2>8 DEF Counted
    <3>3. L!Cardinality({k \in DOMAIN s : s[k] = d}) = Cardinality(A)
      BY <3>1 DEF L!Cardinality, Cardinality
    <3>4. IsFiniteSet(A)
      BY <3>1, TimesFinite
    <3>5. Cardinality(A) = 0 => A = {}
      <4> HIDE DEF A
      <4> QED BY <3>4, FS_EmptySet
    <3>6. A = {} => d \notin L!Range(s)
      BY <3>1 DEF L!Range
    <3> QED BY <3>2, <3>3, <3>5, <3>6 DEF Times
  <2>9. CASE d = 0
    BY <1>1, <2>8, <2>9 DEF CountInv
  <2>10. CASE d # 0 /\ ts[v].type = "Session"
    <3>1. LoggedBelow(RootSet, e) = {}
      BY <2>1, <2>4, <2>5, <2>10, LoggedIsBelowRoots
    <3>2. Counted(e) = 0
      BY <2>7, <2>10, <3>1, FS_EmptySet
    <3> QED BY <2>8, <2>10, <3>2
  <2>11. CASE d # 0 /\ ts[v].type # "Session"
    <3>1. L!Logged(name, d) = Cardinality(LoggedBelow(RootSet, e))
      BY <2>1, <2>4, <2>5, <2>11, LoggedIsBelowRoots
    <3>2. <<v, i>> \in LoggedBelow(RootSet, e)
      <4> DEFINE r == RootParent(ts, v, FALSE)
      <4>1. IsFiniteSet(DOMAIN ts) /\ 0 \notin DOMAIN ts
        BY <2>1, TimedSet
      <4>2. r # 0
        BY <2>11, <4>1, RootParentIsRoot DEF Excluded
      <4>3. v \in Reachable(ts, r)
        BY <4>1, <4>2, FoundAbove DEF Agreeing
      <4>4. r \in RootSet
        BY <4>2 DEF RootSet
      <4> HIDE DEF r
      <4> QED BY <2>2, <4>3, <4>4 DEF LoggedBelow, StampsOf, e
    <3>3. Counted(e) # 0
      BY <2>7, <2>11, <3>2, FS_EmptySet
    <3>4. name \in DOMAIN tsEvents
      BY <2>5, <3>3 DEF Counted
    <3> QED BY <2>7, <2>8, <2>11, <3>1, <3>4
  <2> QED BY <2>9, <2>10, <2>11
<1>2. Counting => CountedOnce
  BY <1>1 DEF Counting, CountedOnce
<1> QED BY <1>2, CountInit, CountNext, PTL DEF Spec

-----------------------------------------------------------------------------
(* The timeline: what collectAndSortRecords collects *)

EventSet == [tx : DOMAIN ts, what : {"Begin", "Timestamp"}, start : Nat, end : Nat]

\* A transaction with times.
Drawable(e) == e.what = "Begin" /\ e.start # 0 /\ e.end # 0

\* Every transaction begins at most once.
OneBegin(es) ==
  \A i, j \in 1..Len(es) :
    es[i].what = "Begin" /\ es[j].what = "Begin" /\ es[i].tx = es[j].tx => i = j

\* The transaction of the j-th event begins before it.
HasBegun(es, j) ==
  \E i \in 1..Len(es) : /\ i < j /\ Drawable(es[i])
                        /\ es[i].tx = es[j].tx /\ es[i].start <= es[j].start

\* The first timestamp of a request is right behind its begin.
StampNext(es) ==
  \A i \in 1..Len(es) : Drawable(es[i]) /\ ts[es[i].tx].type # "Session" =>
    /\ i + 1 \in 1..Len(es) /\ es[i + 1].what = "Timestamp"
    /\ es[i + 1].tx = es[i].tx /\ es[i + 1].start = es[i].start

\* The times of the events are those of their transactions, and no timestamp is of a session.
OwnTimes(es) ==
  \A i \in 1..Len(es) :
    IF es[i].what = "Begin"
    THEN es[i].start = T!StartTime(es[i].tx) /\ es[i].end = T!EndTime(es[i].tx)
    ELSE /\ ts[es[i].tx].type # "Session"
         /\ T!StartTime(es[i].tx) # 0 /\ T!StartTime(es[i].tx) <= es[i].start

\* What is collected from v: each part of it as it should be, v in front, and a
\* session nowhere else.
WellCollected(es, v) ==
  /\ es \in Seq(EventSet)
  /\ \A i \in 1..Len(es) : es[i].tx \in Reachable(ts, v)
  /\ \A i \in 1..Len(es) : i # 1 => es[i].what = "Timestamp" \/ ts[es[i].tx].type # "Session"
  /\ Len(es) > 0 => es[1].tx = v
  /\ OneBegin(es)
  /\ \A j \in 1..Len(es) : es[j].what = "Timestamp" => HasBegun(es, j)
  /\ StampNext(es)
  /\ OwnTimes(es)

-----------------------------------------------------------------------------
(* The rows *)

\* A request has begun and its first timestamp is still to be drawn.
Awaiting == lastTx # 0 /\ ts[lastTx].type # "Session" /\ lastTx \notin DOMAIN txRows

\* The i-th event is drawn before the j-th.
Sooner(i, j) ==
  events[i].start < events[j].start \/ (events[i].start = events[j].start /\ i <= j)

Begins(v) == T!RowsOf(v, "Begin")

TimelineTypes ==
  /\ ts \in DrawnSets
  /\ events \in Seq(EventSet)
  /\ rows \in Seq(Seq(EventSet))
  /\ currentIndex \in Int
  /\ lastTx \in DOMAIN ts \cup {0}

\* The events that are left: a transaction has begun, or begins before its timestamps.
EventsInv ==
  /\ OneBegin(events) /\ StampNext(events) /\ OwnTimes(events)
  /\ \A i \in 1..Len(events) : events[i].what = "Begin" =>
       LET v == events[i].tx IN Begins(v) = {} /\ v \notin DOMAIN txRows /\ v # lastTx
  /\ \A j \in 1..Len(events) : events[j].what = "Timestamp" =>
       LET v == events[j].tx
       IN  HasBegun(events, j) \/ v \in DOMAIN txRows \/ (Awaiting /\ v = lastTx)
  /\ Awaiting => \E i \in 1..Len(events) :
                   /\ events[i].what = "Timestamp" /\ events[i].tx = lastTx
                   /\ \A j \in 1..Len(events) : Sooner(i, j)

\* The rows: txRows and currentIndex are what they are expected to be.
RowsInv ==
  /\ \A v \in DOMAIN txRows : txRows[v] \in 1..Len(rows) /\ Begins(v) = {txRows[v]}
  /\ \A v \in DOMAIN ts : \A r \in T!RowsOf(v, "Timestamp") :
       v \in DOMAIN txRows /\ r = txRows[v] + 1
  /\ \A v \in DOMAIN ts : \A q, r \in Begins(v) : q = r
  /\ lastTx = 0 => rows = <<>> /\ currentIndex = -1
  /\ lastTx # 0 => Len(rows) # 0 /\ currentIndex >= 0
  /\ IF Awaiting THEN currentIndex \in 1..Len(rows) /\ Begins(lastTx) = {currentIndex}
     ELSE currentIndex < Len(rows)

\* What is drawn of a session that is open all the time.
OpenSession(s) ==
  /\ ts[s].type = "Session"
  /\ \A w \in Reachable(ts, s) : /\ T!StartTime(w) \in {0} \cup (T!StartTime(s)..T!EndTime(s))
                                 /\ RootParent(ts, w, TRUE) = s

\* The session is in front of all events and on its row before all else.
SessionInv ==
  \E root \in DOMAIN ts :
    /\ \A i \in 1..Len(events) :
         /\ events[i].tx \in Reachable(ts, root)
         /\ events[i].what = "Begin" /\ ts[events[i].tx].type = "Session" => i = 1 /\ events[i].tx = root
    /\ \A v \in DOMAIN ts : Begins(v) # {} /\ ts[v].type = "Session" => v = root
    /\ OpenSession(root) =>
         /\ \A i \in 1..Len(events) : Drawable(events[i]) /\ events[i].tx = root => lastTx = 0
         /\ Begins(root) # {} =>
              /\ Begins(root) = {1} /\ Len(rows[1]) = 1 /\ rows[1][1].what = "Begin"
              /\ rows[1][1].end = T!EndTime(root) /\ lastTx # 0

TimelineInv == TimelineTypes /\ EventsInv /\ RowsInv /\ SessionInv

\* The lookups of a set are the same ones in the module of the timeline.
LEMMA SameInTimeline ==
  /\ \A s, v : T!Children(s, v) = Children(s, v)
  /\ \A s, v : T!Found(s, v) <=> Found(s, v)
  /\ \A s, v, b : T!RootParent(s, v, b) = RootParent(s, v, b)
  /\ \A s, v : T!Reachable(s, v) = Reachable(s, v)
  /\ \A s : T!Forest(s) <=> Forest(s)
<1>1. /\ \A s, v : T!Children(s, v) = Children(s, v)
      /\ \A s, v : T!Found(s, v) <=> Found(s, v)
  BY DEF T!Children, Children, T!Range, Range, T!Found, Found
<1>2. \A s, v, b : T!RootParent(s, v, b) = RootParent(s, v, b)
  BY DEF T!RootParent, RootParent, T!Found, Found
<1>3. \A s, v : T!Reachable(s, v) = Reachable(s, v)
  BY DEF T!Reachable, Reachable, T!Children, Children, T!Range, Range, T!Cardinality, Cardinality
<1>4. \A s : T!Forest(s) <=> Forest(s)
  BY <1>1, <1>3 DEF T!Forest, Forest
<1> QED BY <1>1, <1>2, <1>3, <1>4

\* What is known of a log that is drawn.
LEMMA DrawnLog ==
  ASSUME ts \in DrawnSets
  PROVE  /\ IsFiniteSet(DOMAIN ts) /\ 0 \notin DOMAIN ts /\ DOMAIN ts \subseteq VXIDs
         /\ Cardinality(DOMAIN ts) \in Nat /\ Forest(ts)
         /\ \A v \in DOMAIN ts :
              /\ ts[v].records \in Seq(T!LogRecords)
              /\ \A i \in DOMAIN ts[v].records : ts[v].records[i].tag = "Link" =>
                   /\ ts[v].records[i].vxid \in DOMAIN ts =>
                        /\ ts[v].records[i].vxid \in Below(ts)[v]
                        /\ ts[ts[v].records[i].vxid].type # "Session"
                   /\ \A j \in DOMAIN ts[v].records : ts[v].records[j] = ts[v].records[i] => i = j
              /\ \A i \in DOMAIN ts[v].records : ts[v].records[i].tag = "Timestamp" =>
                   /\ ts[v].type # "Session" /\ ts[v].records[1].tag = "Timestamp"
                   /\ ts[v].records[1].start <= ts[v].records[i].start
<1>1. T!LoggedInOrder(ts)
  BY DrawnAssumption
<1>2. DOMAIN ts \subseteq VXIDs
  BY <1>1 DEF T!LoggedInOrder
<1>3. IsFiniteSet(DOMAIN ts) /\ 0 \notin DOMAIN ts /\ Cardinality(DOMAIN ts) \in Nat
  BY <1>2, VXIDsAssumption, FS_Subset, FS_CardinalityType
<1>4. Forest(ts)
  BY <1>1, SameInTimeline DEF T!LoggedInOrder
<1>5. \A v \in DOMAIN ts : Below(ts)[v] = Children(ts, v) \cap DOMAIN ts
  BY DEF Below
<1> QED BY <1>1, <1>2, <1>3, <1>4, <1>5, SameInTimeline DEF T!LoggedInOrder

\* The least and the greatest of some indexes are among them.
LEMMA IndexBounds ==
  ASSUME NEW n \in Nat, NEW S \in SUBSET (1..n), S # {}
  PROVE  T!Min(S) \in S /\ T!Max(S) \in S /\ \A i \in S : T!Min(S) <= i
<1>1. S \in SUBSET Nat /\ \A i \in S : i \in Nat
  OBVIOUS
<1>2. PICK i \in S : \A j \in S : i <= j
  BY <1>1, LeastElement
<1>3. T!Min(S) \in S /\ \A j \in S : T!Min(S) <= j
  BY <1>2 DEF T!Min
<1> DEFINE U == {n - j : j \in S}
<1>4. U \in SUBSET Nat /\ U # {}
  OBVIOUS
<1>5. PICK m \in U : \A x \in U : m <= x
  <2> HIDE DEF U
  <2> QED BY <1>4, LeastElement
<1>6. PICK k \in S : m = n - k
  OBVIOUS
<1>7. \A j \in S : k >= j
  <2> TAKE j \in S
  <2>1. n - k <= n - j
    BY <1>5, <1>6
  <2>2. j \in Nat /\ k \in Nat
    BY <1>1
  <2> QED BY <2>1, <2>2
<1>8. T!Max(S) \in S
  BY <1>7 DEF T!Max
<1> QED BY <1>3, <1>8

\* The start of a request is that of its first record, when that has a time; a request
\* with a timestamp has a start and an end.
LEMMA TransactionTimes ==
  ASSUME ts \in DrawnSets, NEW v \in DOMAIN ts
  PROVE  /\ T!StartTime(v) \in Nat /\ T!EndTime(v) \in Nat
         /\ ts[v].type # "Session" /\ T!StartTime(v) # 0 =>
              /\ Len(ts[v].records) # 0 /\ ts[v].records[1].tag = "Timestamp"
         /\ \A i \in DOMAIN ts[v].records : ts[v].records[i].tag = "Timestamp" =>
              /\ ts[v].type # "Session" /\ ts[v].records[1].tag = "Timestamp"
              /\ T!StartTime(v) = ts[v].records[1].start
              /\ T!StartTime(v) # 0 /\ T!EndTime(v) # 0
              /\ T!StartTime(v) <= ts[v].records[i].start
<1> DEFINE q == ts[v].records
           n == Len(q)
           tagged(tag) == {i \in DOMAIN q : q[i].tag = tag}
           none == [tag |-> "none", start |-> 0, end |-> 0]
<1>1. /\ n \in Nat /\ DOMAIN q = 1..n /\ \A i \in 1..n : q[i] \in T!LogRecords
      /\ \A i \in 1..n : q[i].tag = "Timestamp" =>
           ts[v].type # "Session" /\ q[1].tag = "Timestamp" /\ q[1].start <= q[i].start
  BY DrawnLog, LenProperties, ElementOfSeq
<1> HIDE DEF n
<1>2. \A tag, first : T!RecordByTag(v, tag, first) =
        IF tagged(tag) = {} THEN none
        ELSE q[IF first THEN T!Min(tagged(tag)) ELSE T!Max(tagged(tag))]
  BY DEF T!RecordByTag
<1>3. \A tag : /\ tagged(tag) \in SUBSET (1..n)
               /\ tagged(tag) # {} => /\ T!Min(tagged(tag)) \in tagged(tag)
                                      /\ T!Max(tagged(tag)) \in tagged(tag)
                                      /\ \A i \in tagged(tag) : T!Min(tagged(tag)) <= i
  <2> TAKE tag
  <2>1. tagged(tag) \in SUBSET (1..n)
    BY <1>1
  <2> HIDE DEF tagged
  <2> QED BY <1>1, <2>1, IndexBounds
<1>4. \A i \in 1..n : /\ q[i].tag \in {"Timestamp", "SessOpen", "SessClose"} =>
                           q[i].start \in Nat /\ q[i].end \in Nat
                      /\ q[i].tag = "Timestamp" => q[i].start # 0 /\ q[i].end # 0
  BY <1>1 DEF T!LogRecords
<1>5. \A tag \in {"Timestamp", "SessOpen", "SessClose"} : \A first :
        T!RecordByTag(v, tag, first).start \in Nat /\ T!RecordByTag(v, tag, first).end \in Nat
  <2> TAKE tag \in {"Timestamp", "SessOpen", "SessClose"}
  <2> TAKE first
  <2>1. CASE tagged(tag) = {}
    <3>1. T!RecordByTag(v, tag, first) = none
      <4> HIDE DEF tagged, none
      <4> QED BY <1>2, <2>1
    <3> QED BY <3>1
  <2>2. CASE tagged(tag) # {}
    <3> DEFINE k == IF first THEN T!Min(tagged(tag)) ELSE T!Max(tagged(tag))
    <3>1. k \in tagged(tag)
      <4> HIDE DEF tagged
      <4> QED BY <1>3, <2>2
    <3>2. T!RecordByTag(v, tag, first) = q[k]
      <4> HIDE DEF tagged
      <4> QED BY <1>2, <2>2
    <3> HIDE DEF k
    <3> QED BY <1>1, <1>4, <3>1, <3>2
  <2> QED BY <2>1, <2>2
<1>6. T!StartTime(v) \in Nat /\ T!EndTime(v) \in Nat
  BY <1>5 DEF T!StartTime, T!EndTime
<1>7. ASSUME ts[v].type # "Session", T!StartTime(v) # 0
      PROVE  n # 0 /\ q[1].tag = "Timestamp"
  <2>1. T!StartTime(v) = T!RecordByTag(v, "Timestamp", TRUE).start
    BY <1>7 DEF T!StartTime
  <2>2. tagged("Timestamp") # {}
    <3>1. tagged("Timestamp") = {} => T!RecordByTag(v, "Timestamp", TRUE) = none
      <4> HIDE DEF tagged, none
      <4> QED BY <1>2
    <3>2. none.start = 0
      OBVIOUS
    <3> HIDE DEF tagged, none
    <3> QED BY <1>7, <2>1, <3>1, <3>2
  <2>3. PICK i \in 1..n : q[i].tag = "Timestamp"
    BY <1>1, <2>2
  <2> QED BY <1>1, <2>3
<1>8. ASSUME NEW i \in 1..n, q[i].tag = "Timestamp"
      PROVE  /\ T!StartTime(v) = q[1].start /\ T!StartTime(v) # 0 /\ T!EndTime(v) # 0
  <2>1. /\ T!StartTime(v) = T!RecordByTag(v, "Timestamp", TRUE).start
        /\ T!EndTime(v) = T!RecordByTag(v, "Timestamp", FALSE).end
    BY <1>1, <1>8 DEF T!StartTime, T!EndTime
  <2> DEFINE S == tagged("Timestamp")
  <2>2. /\ S # {} /\ 1 \in 1..n /\ q[1].tag = "Timestamp" /\ 1 \in S
        /\ \A j \in S : j \in 1..n /\ q[j].tag = "Timestamp"
    BY <1>1, <1>8
  <2>3. /\ T!StartTime(v) = q[T!Min(S)].start /\ T!EndTime(v) = q[T!Max(S)].end
        /\ T!Min(S) \in S /\ T!Max(S) \in S /\ T!Min(S) <= 1
    <3> HIDE DEF tagged
    <3> QED BY <1>2, <1>3, <2>1, <2>2
  <2> HIDE DEF S
  <2>4. T!Min(S) = 1
    BY <1>1, <2>2, <2>3
  <2> QED BY <1>4, <2>2, <2>3, <2>4
<1> QED BY <1>1, <1>6, <1>7, <1>8 DEF n

\* What is collected from a transaction, when h has what is collected from the others.
BeginOf(v) == [tx |-> v, what |-> "Begin", start |-> T!StartTime(v), end |-> T!EndTime(v)]

StampOf(v, r) == [tx |-> v, what |-> "Timestamp", start |-> r.start, end |-> r.end]

PartsOf(h, v) ==
  [i \in DOMAIN ts[v].records |->
     LET r == ts[v].records[i]
     IN  IF r.tag = "Timestamp" THEN <<StampOf(v, r)>>
         ELSE IF r.tag = "Link" /\ T!Found(ts, r.vxid) THEN h[r.vxid] ELSE <<>>]

Level(h, v) == <<BeginOf(v)>> \o FlattenSeq(PartsOf(h, v))

\* A part is a timestamp, what is collected from a child, or nothing.
LEMMA PartKinds ==
  ASSUME ts \in DrawnSets, NEW v \in DOMAIN ts,
         NEW h \in [DOMAIN ts -> Seq(EventSet)]
  PROVE  /\ PartsOf(h, v) \in Seq(Seq(EventSet))
         /\ Len(PartsOf(h, v)) = Len(ts[v].records) /\ Len(ts[v].records) \in Nat
         /\ DOMAIN ts[v].records = 1..Len(ts[v].records)
         /\ BeginOf(v) \in EventSet
         /\ \A i \in 1..Len(ts[v].records) :
              LET r    == ts[v].records[i]
                  part == PartsOf(h, v)[i]
              IN  \/ /\ r.tag = "Timestamp" /\ Len(part) = 1
                     /\ part[1] = StampOf(v, r)
                  \/ /\ r.tag = "Link" /\ r.vxid \in Below(ts)[v] /\ r.vxid \in DOMAIN ts
                     /\ ts[r.vxid].type # "Session" /\ part = h[r.vxid]
                     /\ \A j \in 1..Len(ts[v].records) :
                          ts[v].records[j].tag = "Link" /\ ts[v].records[j].vxid = r.vxid => i = j
                  \/ r.tag # "Timestamp" /\ Len(part) = 0
<1> DEFINE q == ts[v].records
           n == Len(q)
           P == PartsOf(h, v)
<1>1. /\ n \in Nat /\ DOMAIN q = 1..n /\ q \in Seq(T!LogRecords)
      /\ \A i \in 1..n : q[i] \in T!LogRecords
  BY DrawnLog, LenProperties, ElementOfSeq
<1>2. \A i \in 1..n : q[i].tag = "Timestamp" => q[i].start \in Nat /\ q[i].end \in Nat
  BY <1>1 DEF T!LogRecords
<1>3. \A i, j \in 1..n : q[i].tag = "Link" /\ q[j].tag = "Link" /\ q[j].vxid = q[i].vxid => q[i] = q[j]
  <2> TAKE i, j \in 1..n
  <2> HAVE q[i].tag = "Link" /\ q[j].tag = "Link" /\ q[j].vxid = q[i].vxid
  <2>1. q[i] \in [tag : {"Link"}, vxid : VXIDs] /\ q[j] \in [tag : {"Link"}, vxid : VXIDs]
    BY <1>1 DEF T!LogRecords
  <2> DEFINE a == q[i]
             b == q[j]
  <2>2. a \in [tag : {"Link"}, vxid : VXIDs] /\ b \in [tag : {"Link"}, vxid : VXIDs] /\ a.vxid = b.vxid
    BY <2>1
  <2> HIDE DEF a, b
  <2>3. a = b
    BY <2>2
  <2> QED BY <2>3 DEF a, b
<1>4. \A i \in 1..n : P[i] = LET r == q[i]
                             IN  IF r.tag = "Timestamp" THEN <<StampOf(v, r)>>
                                 ELSE IF r.tag = "Link" /\ Found(ts, r.vxid)
                                 THEN h[r.vxid] ELSE <<>>
  BY <1>1, SameInTimeline DEF PartsOf
<1>5. /\ \A i \in 1..n : q[i].tag = "Timestamp" => StampOf(v, q[i]) \in EventSet
      /\ BeginOf(v) \in EventSet
  BY <1>2, TransactionTimes DEF EventSet, StampOf, BeginOf
<1>6. \A i \in 1..n : q[i].tag = "Link" =>
        /\ q[i].vxid \in DOMAIN ts => q[i].vxid \in Below(ts)[v] /\ ts[q[i].vxid].type # "Session"
        /\ \A j \in 1..n : q[j] = q[i] => i = j
  BY <1>1, DrawnLog
<1> HIDE DEF n, q, P
<1>7. ASSUME NEW i \in 1..n
      PROVE  /\ P[i] \in Seq(EventSet)
             /\ \/ q[i].tag = "Timestamp" /\ Len(P[i]) = 1 /\ P[i][1] = StampOf(v, q[i])
                \/ /\ q[i].tag = "Link" /\ q[i].vxid \in Below(ts)[v] /\ q[i].vxid \in DOMAIN ts
                   /\ ts[q[i].vxid].type # "Session" /\ P[i] = h[q[i].vxid]
                   /\ \A j \in 1..n : q[j].tag = "Link" /\ q[j].vxid = q[i].vxid => i = j
                \/ q[i].tag # "Timestamp" /\ Len(P[i]) = 0
  <2>1. CASE q[i].tag = "Timestamp"
    <3>1. P[i] = <<StampOf(v, q[i])>>
      BY <1>4, <2>1
    <3>2. StampOf(v, q[i]) \in EventSet
      BY <1>5, <2>1
    <3> DEFINE e == StampOf(v, q[i])
    <3> HIDE DEF e
    <3>3. <<e>> \in Seq(EventSet) /\ Len(<<e>>) = 1 /\ <<e>>[1] = e
      BY <3>2 DEF e
    <3> QED BY <2>1, <3>1, <3>3 DEF e
  <2>2. CASE q[i].tag = "Link" /\ Found(ts, q[i].vxid)
    <3>1. P[i] = h[q[i].vxid]
      BY <1>4, <2>2
    <3>2. q[i].vxid \in DOMAIN ts
      BY <2>2 DEF Found
    <3> QED BY <1>3, <1>6, <2>2, <3>1, <3>2
  <2>3. CASE ~(q[i].tag = "Timestamp") /\ ~(q[i].tag = "Link" /\ Found(ts, q[i].vxid))
    <3>1. P[i] = <<>>
      BY <1>4, <2>3
    <3> QED BY <2>3, <3>1, EmptySeq
  <2> QED BY <2>1, <2>2, <2>3
<1>8. P \in [1..n -> Seq(EventSet)]
  <2>1. P = [i \in 1..n |-> P[i]]
    BY <1>1 DEF P, PartsOf, q
  <2> QED BY <1>7, <2>1
<1>9. P \in Seq(Seq(EventSet)) /\ Len(P) = n
  <2>1. P \in Seq(Seq(EventSet))
    BY <1>1, <1>8, IsASeq
  <2> QED BY <1>1, <1>8, <2>1, LenProperties
<1> QED BY <1>1, <1>5, <1>7, <1>9 DEF n, q, P

\* Where everything is in what is collected from a transaction: behind its begin.
LevelAt(off, P, es) ==
  /\ off \in [1..Len(P) -> Nat]
  /\ \A i \in 1..Len(P) : \A j \in 1..Len(P[i]) :
       off[i] + j + 1 \in 2..Len(es) /\ es[off[i] + j + 1] = P[i][j]
  /\ \A k \in 2..Len(es) : \E i \in 1..Len(P) : \E j \in 1..Len(P[i]) :
       k = off[i] + j + 1 /\ es[k] = P[i][j]
  /\ Len(P) # 0 => off[1] = 0

LEMMA LevelParts ==
  ASSUME ts \in DrawnSets, NEW v \in DOMAIN ts,
         NEW h \in [DOMAIN ts -> Seq(EventSet)]
  PROVE  LET P  == PartsOf(h, v)
             es == Level(h, v)
         IN  /\ es \in Seq(EventSet) /\ Len(es) \in Nat \ {0} /\ es[1] = BeginOf(v)
             /\ \E off : LevelAt(off, P, es)
<1> DEFINE P == PartsOf(h, v)
           b == BeginOf(v)
           F == FlattenSeq(P)
           es == <<b>> \o F
<1>1. P \in Seq(Seq(EventSet)) /\ b \in EventSet
  BY PartKinds
<1> HIDE DEF P, b
<1>2. F \in Seq(EventSet) /\ \E off : PartsAt(off, P, F)
  <2> DEFINE S == EventSet
  <2>1. P \in Seq(Seq(S))
    BY <1>1
  <2> HIDE DEF S
  <2>2. F \in Seq(S) /\ \E off : PartsAt(off, P, F)
    BY <2>1, FlattenedAt
  <2> QED BY <2>2 DEF S
<1> HIDE DEF F
<1>10. PICK off : PartsAt(off, P, F)
  BY <1>2
<1>3. /\ <<b>> \in Seq(EventSet) /\ Len(<<b>>) = 1 /\ <<b>>[1] = b /\ Len(F) \in Nat
  BY <1>1, <1>2, LenProperties
<1>4. /\ es \in Seq(EventSet) /\ Len(es) = 1 + Len(F)
      /\ \A k \in 1..(1 + Len(F)) : es[k] = IF k <= 1 THEN <<b>>[k] ELSE F[k - 1]
  <2> DEFINE a == <<b>>
  <2>1. a \in Seq(EventSet) /\ Len(a) = 1
    BY <1>3
  <2> HIDE DEF a
  <2> QED BY <1>2, <2>1, ConcatProperties DEF a
<1> HIDE DEF es
<1>5. Len(es) \in Nat \ {0} /\ es[1] = b
  BY <1>3, <1>4
<1>6. \A k \in 1..Len(F) : k + 1 \in 2..Len(es) /\ es[k + 1] = F[k]
  BY <1>3, <1>4
<1>7. \A k \in 2..Len(es) : k - 1 \in 1..Len(F) /\ (k - 1) + 1 = k /\ es[k] = F[k - 1]
  BY <1>3, <1>4
<1>8. \A i \in 1..Len(P) : \A j \in 1..Len(P[i]) :
        off[i] + j + 1 \in 2..Len(es) /\ es[off[i] + j + 1] = P[i][j]
  BY <1>6, <1>10 DEF PartsAt
<1>9. ASSUME NEW k \in 2..Len(es)
      PROVE  \E i \in 1..Len(P) : \E j \in 1..Len(P[i]) : k = off[i] + j + 1 /\ es[k] = P[i][j]
  <2>1. k - 1 \in 1..Len(F) /\ (k - 1) + 1 = k /\ es[k] = F[k - 1]
    BY <1>7
  <2>2. PICK i \in 1..Len(P) : \E j \in 1..Len(P[i]) : k - 1 = off[i] + j /\ F[k - 1] = P[i][j]
    BY <1>10, <2>1 DEF PartsAt
  <2>3. PICK j \in 1..Len(P[i]) : k - 1 = off[i] + j /\ F[k - 1] = P[i][j]
    BY <2>2
  <2>4. k = off[i] + j + 1 /\ es[k] = P[i][j]
    BY <2>1, <2>3
  <2> QED BY <2>4
<1>11. off \in [1..Len(P) -> Nat] /\ (Len(P) # 0 => off[1] = 0)
  BY <1>10 DEF PartsAt
<1>12. LevelAt(off, P, es)
  BY <1>8, <1>9, <1>11 DEF LevelAt
<1> QED BY <1>4, <1>5, <1>12 DEF P, b, F, es, Level

\* What is collected from a transaction is as it should be, when that is so for its children.
LEMMA LevelIsWell ==
  ASSUME ts \in DrawnSets, NEW v \in DOMAIN ts,
         NEW h \in [DOMAIN ts -> Seq(EventSet)],
         \A w \in DOMAIN ts : WellCollected(h[w], w)
  PROVE  WellCollected(Level(h, v), v)
<1> DEFINE P == PartsOf(h, v)
           es == Level(h, v)
           q == ts[v].records
           n == Len(q)
           b == BeginOf(v)
           Stamp(i) == q[i].tag = "Timestamp" /\ Len(P[i]) = 1 /\ P[i][1] = StampOf(v, q[i])
           Child(i, w) == /\ w \in Below(ts)[v] /\ w \in DOMAIN ts /\ ts[w].type # "Session"
                          /\ P[i] = h[w] /\ q[i].tag = "Link" /\ q[i].vxid = w
                          /\ \A j \in 1..n : q[j].tag = "Link" /\ q[j].vxid = w => i = j
<1>1. /\ Len(P) = n /\ n \in Nat /\ DOMAIN q = 1..n /\ b \in EventSet
      /\ \A i \in 1..n :
           \/ Stamp(i)
           \/ \E w : Child(i, w)
           \/ q[i].tag # "Timestamp" /\ Len(P[i]) = 0
  <2>1. /\ Len(P) = n /\ n \in Nat /\ DOMAIN q = 1..n /\ b \in EventSet
    BY PartKinds
  <2>2. \A i \in 1..n :
          \/ Stamp(i)
          \/ Child(i, q[i].vxid)
          \/ q[i].tag # "Timestamp" /\ Len(P[i]) = 0
    <3> TAKE i \in 1..n
    <3> DEFINE r == ts[v].records[i]
               p == PartsOf(h, v)[i]
    <3>1. \/ r.tag = "Timestamp" /\ Len(p) = 1 /\ p[1] = StampOf(v, r)
          \/ /\ r.tag = "Link" /\ r.vxid \in Below(ts)[v] /\ r.vxid \in DOMAIN ts
             /\ ts[r.vxid].type # "Session" /\ p = h[r.vxid]
             /\ \A j \in 1..Len(ts[v].records) :
                  ts[v].records[j].tag = "Link" /\ ts[v].records[j].vxid = r.vxid => i = j
          \/ r.tag # "Timestamp" /\ Len(p) = 0
      BY PartKinds
    <3>2. CASE r.tag = "Timestamp" /\ Len(p) = 1 /\ p[1] = StampOf(v, r)
      <4>1. Stamp(i)
        BY <3>2
      <4> HIDE DEF p, r, Stamp, Child
      <4> QED BY <4>1
    <3>3. CASE r.tag # "Timestamp" /\ Len(p) = 0
      BY <3>3
    <3>4. CASE /\ r.tag = "Link" /\ r.vxid \in Below(ts)[v] /\ r.vxid \in DOMAIN ts
               /\ ts[r.vxid].type # "Session" /\ p = h[r.vxid]
               /\ \A j \in 1..Len(ts[v].records) :
                    ts[v].records[j].tag = "Link" /\ ts[v].records[j].vxid = r.vxid => i = j
      <4>1. Child(i, q[i].vxid)
        BY <3>4
      <4> HIDE DEF p, r, Stamp, Child
      <4> QED BY <4>1
    <3> QED
      <4> HIDE DEF p, r, Stamp, Child
      <4> QED BY <3>1, <3>2, <3>3, <3>4
  <2> HIDE DEF P, n, q, b, Stamp, Child
  <2> QED BY <2>1, <2>2
<1>2. es \in Seq(EventSet) /\ Len(es) \in Nat \ {0} /\ es[1] = b /\ \E off : LevelAt(off, P, es)
  BY LevelParts
<1> HIDE DEF P, es
<1>3. PICK off : LevelAt(off, P, es)
  BY <1>2
<1>4. /\ \A i \in 1..n : off[i] \in Nat
      /\ \A i \in 1..n : \A j \in 1..Len(P[i]) :
           off[i] + j + 1 \in 2..Len(es) /\ es[off[i] + j + 1] = P[i][j]
      /\ \A k \in 2..Len(es) : \E i \in 1..n : \E j \in 1..Len(P[i]) :
           k = off[i] + j + 1 /\ es[k] = P[i][j]
      /\ n # 0 => off[1] = 0
  <2> HIDE DEF n
  <2> QED BY <1>1, <1>3 DEF LevelAt
<1>5. /\ b.tx = v /\ b.what = "Begin" /\ b.start = T!StartTime(v) /\ b.end = T!EndTime(v)
      /\ \A i : LET e == StampOf(v, q[i])
                IN  e.tx = v /\ e.what = "Timestamp" /\ e.start = q[i].start /\ e.end = q[i].end
  BY DEF BeginOf, StampOf
<1>6. /\ T!StartTime(v) \in Nat /\ T!EndTime(v) \in Nat
      /\ ts[v].type # "Session" /\ T!StartTime(v) # 0 => n # 0 /\ q[1].tag = "Timestamp"
      /\ \A i \in 1..n : q[i].tag = "Timestamp" =>
           /\ ts[v].type # "Session" /\ q[1].tag = "Timestamp"
           /\ T!StartTime(v) = q[1].start /\ T!StartTime(v) # 0 /\ T!EndTime(v) # 0
           /\ T!StartTime(v) <= q[i].start
  BY <1>1, TransactionTimes
<1>7. /\ v \in Reachable(ts, v)
      /\ \A w \in Below(ts)[v] : v \notin Reachable(ts, w) /\ Reachable(ts, w) \subseteq Reachable(ts, v)
      /\ \A w, x \in Below(ts)[v] : w # x => Reachable(ts, w) \cap Reachable(ts, x) = {}
  BY DrawnLog, SubtreesApart
<1> HIDE DEF n, q, b
<1>8. ASSUME NEW i \in 1..n, Stamp(i), NEW j \in 1..Len(P[i]), NEW e, e = P[i][j]
      PROVE  /\ j = 1 /\ e.tx = v /\ e.what = "Timestamp" /\ e.start = q[i].start
             /\ ts[v].type # "Session" /\ T!StartTime(v) # 0 /\ T!EndTime(v) # 0
             /\ T!StartTime(v) <= e.start
  <2>1. j = 1
    BY <1>8
  <2> QED BY <1>5, <1>6, <1>8, <2>1
<1>9. ASSUME NEW i \in 1..n, NEW w, Child(i, w)
      PROVE  /\ w \in Below(ts)[v] /\ WellCollected(P[i], w) /\ ts[w].type # "Session"
             /\ Len(P[i]) \in Nat
  <2>1. WellCollected(h[w], w) /\ Len(h[w]) \in Nat
    BY <1>9, LenProperties
  <2> QED BY <1>9, <2>1
<1> HIDE DEF Stamp
\* Behind the begin, every event is a timestamp of v or collected from a child.
<1>10. ASSUME NEW k \in 1..Len(es)
       PROVE  \/ k = 1 /\ es[k] = b
              \/ \E i \in 1..n : \E j \in 1..Len(P[i]) :
                   /\ k = off[i] + j + 1 /\ es[k] = P[i][j] /\ k # 1
                   /\ Stamp(i) \/ \E w : Child(i, w)
  <2>1. CASE k = 1
    BY <1>2, <2>1
  <2>2. CASE k # 1
    <3>1. k \in 2..Len(es)
      BY <1>2, <2>2
    <3>2. PICK i \in 1..n : \E j \in 1..Len(P[i]) : k = off[i] + j + 1 /\ es[k] = P[i][j]
      BY <1>4, <3>1
    <3>3. Len(P[i]) # 0
      BY <3>2
    <3>4. Stamp(i) \/ \E w : Child(i, w)
      <4> HIDE DEF Child
      <4> QED BY <1>1, <3>3 DEF n
    <3> HIDE DEF Child
    <3> QED BY <2>2, <3>2, <3>4
  <2> QED BY <2>1, <2>2
<1>11. ASSUME NEW i \in 1..n, NEW w, Child(i, w), NEW j \in 1..Len(P[i])
       PROVE  /\ P[i][j].tx \in Reachable(ts, w) /\ P[i][j].tx \in Reachable(ts, v) /\ P[i][j].tx # v
              /\ P[i][j].what = "Timestamp" \/ ts[P[i][j].tx].type # "Session"
  <2> DEFINE p == P[i]
  <2>1. WellCollected(p, w) /\ w \in Below(ts)[v] /\ ts[w].type # "Session"
    BY <1>9, <1>11
  <2> HIDE DEF p, Child
  <2>2. j \in 1..Len(p)
    BY <1>11 DEF p
  <2>3. p[j].tx \in Reachable(ts, w)
    BY <2>1, <2>2 DEF WellCollected
  <2>4. p[j].what = "Timestamp" \/ ts[p[j].tx].type # "Session"
    <3>1. CASE j = 1
      <4>1. p[1].tx = w
        BY <2>1, <2>2 DEF WellCollected
      <4> QED BY <2>1, <3>1, <4>1
    <3>2. CASE j # 1
      BY <2>1, <2>2, <3>2 DEF WellCollected
    <3> QED BY <3>1, <3>2
  <2> QED BY <1>7, <2>1, <2>3, <2>4 DEF p
<1>12. \A k \in 1..Len(es) : es[k].tx \in Reachable(ts, v)
  <2> TAKE k \in 1..Len(es)
  <2> HIDE DEF Child
  <2> QED BY <1>5, <1>7, <1>8, <1>10, <1>11
<1>13. \A k \in 1..Len(es) : k # 1 => es[k].what = "Timestamp" \/ ts[es[k].tx].type # "Session"
  <2> TAKE k \in 1..Len(es)
  <2> HIDE DEF Child
  <2> QED BY <1>8, <1>10, <1>11
<1>14. OneBegin(es)
  <2> SUFFICES ASSUME NEW k \in 1..Len(es), NEW l \in 1..Len(es),
                      es[k].what = "Begin", es[l].what = "Begin", es[k].tx = es[l].tx
               PROVE  k = l
    BY DEF OneBegin
  <2>1. ASSUME NEW m \in 1..Len(es), es[m].what = "Begin", m # 1
        PROVE  \E i \in 1..n : \E j \in 1..Len(P[i]) : \E w :
                 m = off[i] + j + 1 /\ es[m] = P[i][j] /\ Child(i, w)
    <3>1. PICK i \in 1..n : \E j \in 1..Len(P[i]) :
                   /\ m = off[i] + j + 1 /\ es[m] = P[i][j]
                   /\ Stamp(i) \/ \E w : Child(i, w)
      <4> HIDE DEF Child
      <4> QED BY <1>10, <2>1
    <3>2. PICK j \in 1..Len(P[i]) : /\ m = off[i] + j + 1 /\ es[m] = P[i][j]
                                    /\ Stamp(i) \/ \E w : Child(i, w)
      BY <3>1
    <3> HIDE DEF Child
    <3>3. ~Stamp(i)
      BY <1>8, <2>1, <3>2
    <3> QED BY <3>2, <3>3
  <2>2. ASSUME NEW m \in 1..Len(es), es[m].what = "Begin", m # 1
        PROVE  es[m].tx # v
    <3> HIDE DEF Child
    <3>1. PICK i \in 1..n : \E j \in 1..Len(P[i]) : \E w :
                 m = off[i] + j + 1 /\ es[m] = P[i][j] /\ Child(i, w)
      BY <2>1, <2>2
    <3> QED BY <1>11, <3>1
  <2>3. CASE k = 1 \/ l = 1
    BY <1>2, <1>5, <2>2, <2>3
  <2>4. CASE k # 1 /\ l # 1
    <3>1. PICK i \in 1..n : \E j \in 1..Len(P[i]) : \E w :
                 k = off[i] + j + 1 /\ es[k] = P[i][j] /\ Child(i, w)
      <4> HIDE DEF Child
      <4> QED BY <2>1, <2>4
    <3>a. PICK j \in 1..Len(P[i]) : \E w : k = off[i] + j + 1 /\ es[k] = P[i][j] /\ Child(i, w)
      <4> HIDE DEF Child
      <4> QED BY <3>1
    <3>2. PICK w : k = off[i] + j + 1 /\ es[k] = P[i][j] /\ Child(i, w)
      <4> HIDE DEF Child
      <4> QED BY <3>a
    <3>3. PICK g \in 1..n : \E j1 \in 1..Len(P[g]) : \E x :
                 l = off[g] + j1 + 1 /\ es[l] = P[g][j1] /\ Child(g, x)
      <4> HIDE DEF Child
      <4> QED BY <2>1, <2>4
    <3>b. PICK j1 \in 1..Len(P[g]) : \E x : l = off[g] + j1 + 1 /\ es[l] = P[g][j1] /\ Child(g, x)
      <4> HIDE DEF Child
      <4> QED BY <3>3
    <3>4. PICK x : l = off[g] + j1 + 1 /\ es[l] = P[g][j1] /\ Child(g, x)
      <4> HIDE DEF Child
      <4> QED BY <3>b
    <3>5. w \in Below(ts)[v] /\ x \in Below(ts)[v] /\ WellCollected(P[i], w)
      <4> HIDE DEF Child
      <4> QED BY <1>9, <3>2, <3>4
    <3>6. es[k].tx \in Reachable(ts, w) /\ es[l].tx \in Reachable(ts, x)
      <4> HIDE DEF Child
      <4> QED BY <1>11, <3>2, <3>4
    <3>7. w = x
      BY <1>7, <3>5, <3>6
    <3>8. g = i
      BY <3>2, <3>4, <3>7
    <3> DEFINE p == P[i]
    <3>9. /\ WellCollected(p, w) /\ j \in 1..Len(p) /\ j1 \in 1..Len(p)
          /\ p[j].what = "Begin" /\ p[j1].what = "Begin" /\ p[j].tx = p[j1].tx
      BY <3>2, <3>4, <3>5, <3>8
    <3> HIDE DEF p
    <3>10. j = j1
      BY <3>9 DEF WellCollected, OneBegin
    <3> QED BY <3>2, <3>4, <3>8, <3>10
  <2> QED BY <2>3, <2>4
<1>15. ASSUME NEW k \in 1..Len(es), es[k].what = "Timestamp"
       PROVE  HasBegun(es, k)
  <2>0. k # 1 /\ 1 < k /\ 1 \in 1..Len(es)
    BY <1>2, <1>5, <1>15
  <2>1. PICK i \in 1..n : \E j \in 1..Len(P[i]) :
               /\ k = off[i] + j + 1 /\ es[k] = P[i][j]
               /\ Stamp(i) \/ \E w : Child(i, w)
    <3> HIDE DEF Child
    <3> QED BY <1>10, <2>0
  <2>2. PICK j \in 1..Len(P[i]) : /\ k = off[i] + j + 1 /\ es[k] = P[i][j]
                                  /\ Stamp(i) \/ \E w : Child(i, w)
    BY <2>1
  <2> HIDE DEF Child
  <2>3. CASE Stamp(i)
    <3>1. Drawable(es[1]) /\ es[1].tx = es[k].tx /\ es[1].start <= es[k].start
      BY <1>2, <1>5, <1>8, <2>2, <2>3 DEF Drawable
    <3> QED BY <2>0, <3>1 DEF HasBegun
  <2>4. CASE \E w : Child(i, w)
    <3>1. PICK w : Child(i, w)
      BY <2>4
    <3> DEFINE p == P[i]
    <3>2. WellCollected(p, w) /\ Len(p) \in Nat
      BY <1>9, <3>1
    <3>3. j \in 1..Len(p) /\ p[j] = es[k]
      BY <2>2
    <3> HIDE DEF p
    <3>4. PICK j1 \in 1..Len(p) : /\ j1 < j /\ Drawable(p[j1])
                                  /\ p[j1].tx = p[j].tx /\ p[j1].start <= p[j].start
      BY <1>15, <3>2, <3>3 DEF WellCollected, HasBegun
    <3> DEFINE m == off[i] + j1 + 1
    <3>5. m \in 2..Len(es) /\ es[m] = p[j1]
      BY <1>4 DEF p
    <3>6. m \in 1..Len(es) /\ m < k
      <4>1. \A a, x, y \in Nat : x < y => a + x + 1 < a + y + 1
        OBVIOUS
      <4>2. off[i] \in Nat /\ j \in Nat /\ j1 \in Nat
        BY <1>4, <3>2, <3>3
      <4>3. m < k
        BY <2>2, <3>4, <4>1, <4>2
      <4> HIDE DEF m
      <4> QED BY <1>2, <3>5, <4>3
    <3> HIDE DEF m
    <3> QED BY <3>3, <3>4, <3>5, <3>6 DEF HasBegun
  <2> QED BY <2>2, <2>3, <2>4
<1>16. StampNext(es)
  <2> SUFFICES ASSUME NEW k \in 1..Len(es), Drawable(es[k]), ts[es[k].tx].type # "Session"
               PROVE  /\ k + 1 \in 1..Len(es) /\ es[k + 1].what = "Timestamp"
                      /\ es[k + 1].tx = es[k].tx /\ es[k + 1].start = es[k].start
    BY DEF StampNext
  <2> HIDE DEF Child
  <2>1. CASE k = 1
    <3>1. ts[v].type # "Session" /\ T!StartTime(v) # 0
      BY <1>2, <1>5, <2>1 DEF Drawable
    <3>2. n # 0 /\ q[1].tag = "Timestamp" /\ 1 \in 1..n
      BY <1>1, <1>6, <3>1 DEF n
    <3>3. Stamp(1)
      <4>1. \A w : ~Child(1, w)
        BY <3>2 DEF Child
      <4> QED BY <1>1, <3>2, <4>1 DEF n, q
    <3>4. 1 \in 1..Len(P[1])
      BY <3>3 DEF Stamp
    <3> DEFINE m == off[1] + 1 + 1
    <3>5. m = 2 /\ m \in 2..Len(es) /\ es[m] = P[1][1]
      BY <1>4, <3>2, <3>4
    <3> HIDE DEF m
    <3>6. es[2].tx = v /\ es[2].what = "Timestamp" /\ es[2].start = q[1].start /\ 2 \in 1..Len(es)
      <4> DEFINE e == P[1][1]
      <4>1. e.tx = v /\ e.what = "Timestamp" /\ e.start = q[1].start
        BY <1>8, <3>2, <3>3, <3>4
      <4> HIDE DEF e
      <4>2. es[2] = e
        BY <3>5 DEF e
      <4>3. 2 \in 1..Len(es)
        BY <1>2, <3>5
      <4> QED BY <4>1, <4>2, <4>3
    <3>7. T!StartTime(v) = q[1].start
      BY <1>6, <3>2
    <3> QED BY <1>2, <1>5, <2>1, <3>6, <3>7
  <2>2. CASE k # 1
    <3>1. PICK i \in 1..n : \E j \in 1..Len(P[i]) :
                 /\ k = off[i] + j + 1 /\ es[k] = P[i][j]
                 /\ Stamp(i) \/ \E w : Child(i, w)
      BY <1>10, <2>2
    <3>2. PICK j \in 1..Len(P[i]) : /\ k = off[i] + j + 1 /\ es[k] = P[i][j]
                                    /\ Stamp(i) \/ \E w : Child(i, w)
      BY <3>1
    <3>3. ~Stamp(i)
      BY <1>8, <3>2 DEF Drawable
    <3>4. PICK w : Child(i, w)
      BY <3>2, <3>3
    <3> DEFINE p == P[i]
    <3>5. WellCollected(p, w) /\ Len(p) \in Nat
      BY <1>9, <3>4
    <3>6. j \in 1..Len(p) /\ p[j] = es[k]
      BY <3>2
    <3> HIDE DEF p
    <3>7. /\ j + 1 \in 1..Len(p) /\ p[j + 1].what = "Timestamp"
          /\ p[j + 1].tx = p[j].tx /\ p[j + 1].start = p[j].start
      BY <3>5, <3>6 DEF WellCollected, StampNext
    <3> DEFINE m == off[i] + (j + 1) + 1
    <3>8. m \in 2..Len(es) /\ es[m] = p[j + 1]
      <4> DEFINE j1 == j + 1
      <4>1. j1 \in 1..Len(P[i])
        BY <3>7 DEF p
      <4> HIDE DEF j1
      <4>2. off[i] + j1 + 1 \in 2..Len(es) /\ es[off[i] + j1 + 1] = P[i][j1]
        BY <1>4, <4>1
      <4> QED BY <4>2 DEF j1, p
    <3>9. m = k + 1 /\ m \in 1..Len(es)
      <4>1. \A a, x \in Nat : a + (x + 1) + 1 = (a + x + 1) + 1
        OBVIOUS
      <4>2. off[i] \in Nat /\ j \in Nat
        BY <1>4, <3>5, <3>6
      <4>3. m = k + 1
        BY <3>2, <4>1, <4>2
      <4> HIDE DEF m
      <4> QED BY <1>2, <3>8, <4>3
    <3> HIDE DEF m
    <3> QED BY <3>6, <3>7, <3>8, <3>9
  <2> QED BY <2>1, <2>2
<1>17. OwnTimes(es)
  <2> SUFFICES ASSUME NEW k \in 1..Len(es)
               PROVE  IF es[k].what = "Begin"
                      THEN es[k].start = T!StartTime(es[k].tx) /\ es[k].end = T!EndTime(es[k].tx)
                      ELSE /\ ts[es[k].tx].type # "Session"
                           /\ T!StartTime(es[k].tx) # 0 /\ T!StartTime(es[k].tx) <= es[k].start
    BY DEF OwnTimes
  <2> HIDE DEF Child
  <2>1. CASE k = 1
    BY <1>2, <1>5, <2>1
  <2>2. CASE k # 1
    <3>1. PICK i \in 1..n : \E j \in 1..Len(P[i]) :
                 es[k] = P[i][j] /\ (Stamp(i) \/ \E w : Child(i, w))
      BY <1>10, <2>2
    <3>2. PICK j \in 1..Len(P[i]) : es[k] = P[i][j] /\ (Stamp(i) \/ \E w : Child(i, w))
      BY <3>1
    <3>3. CASE Stamp(i)
      BY <1>8, <3>2, <3>3
    <3>4. CASE \E w : Child(i, w)
      <4>1. PICK w : Child(i, w)
        BY <3>4
      <4> DEFINE p == P[i]
      <4>2. WellCollected(p, w) /\ j \in 1..Len(p) /\ p[j] = es[k]
        BY <1>9, <3>2, <4>1
      <4> HIDE DEF p
      <4> QED BY <4>2 DEF WellCollected, OwnTimes
    <3> QED BY <3>2, <3>3, <3>4
  <2> QED BY <2>1, <2>2
<1>18. WellCollected(es, v)
  BY <1>2, <1>5, <1>12, <1>13, <1>14, <1>15, <1>16, <1>17 DEF WellCollected
<1> QED BY <1>18 DEF es

\* Nothing has been collected yet.
LEMMA NothingIsWell ==
  ASSUME NEW v
  PROVE  WellCollected(<<>>, v)
<1> DEFINE es == <<>>
<1>1. es \in Seq(EventSet) /\ Len(es) = 0
  BY EmptySeq
<1> HIDE DEF es
<1>2. \A i \in 1..Len(es) : FALSE
  BY <1>1
<1>3. ~(Len(es) > 0)
  BY <1>1
<1>4. WellCollected(es, v)
  BY <1>1, <1>2, <1>3 DEF WellCollected, OneBegin, StampNext, OwnTimes
<1> QED BY <1>4 DEF es

\* What collectAndSortRecords collects is as it should be, however deep the links go.
LEMMA CollectedWell ==
  ASSUME ts \in DrawnSets, NEW root \in DOMAIN ts
  PROVE  WellCollected(T!Collected(root), root)
<1> DEFINE D == DOMAIN ts
           n == Cardinality(D)
           H == [D -> Seq(EventSet)]
           S == {h \in H : \A w \in D : WellCollected(h[w], w)}
           start == [v \in D |-> <<>>]
           down(h) == [v \in D |-> Level(h, v)]
           Body(c) == [depth \in 0..n |-> [v \in D |->
             IF depth = 0 THEN <<>>
             ELSE <<[tx |-> v, what |-> "Begin", start |-> T!StartTime(v), end |-> T!EndTime(v)]>>
                  \o T!FlattenSeq([i \in DOMAIN ts[v].records |->
                       LET r == ts[v].records[i]
                       IN  IF r.tag = "Timestamp"
                           THEN <<[tx |-> v, what |-> "Timestamp", start |-> r.start, end |-> r.end]>>
                           ELSE IF r.tag = "Link" /\ T!Found(ts, r.vxid)
                           THEN c[depth - 1][r.vxid] ELSE <<>>])]]
           Nested(c) == [depth \in 0..n |-> IF depth = 0 THEN start ELSE down(c[depth - 1])]
<1>1. n \in Nat
  BY DrawnLog
<1>2. start \in S
  <2>1. start \in H
    BY EmptySeq
  <2>2. \A w \in D : WellCollected(start[w], w)
    BY NothingIsWell
  <2> QED BY <2>1, <2>2
<1>3. \A h \in S : down(h) \in S
  <2> TAKE h \in S
  <2>1. h \in [DOMAIN ts -> Seq(EventSet)] /\ \A w \in DOMAIN ts : WellCollected(h[w], w)
    OBVIOUS
  <2>2. \A v \in D : WellCollected(Level(h, v), v)
    BY <2>1, LevelIsWell
  <2>3. \A v \in D : Level(h, v) \in Seq(EventSet)
    BY <2>2 DEF WellCollected
  <2>4. down(h) \in H
    BY <2>3
  <2>5. \A w \in D : WellCollected(down(h)[w], w)
    BY <2>2
  <2> HIDE DEF H, down
  <2> QED BY <2>4, <2>5
<1>4. \A c : Body(c) = Nested(c)
  <2> TAKE c
  <2>1. \A ss : T!FlattenSeq(ss) = FlattenSeq(ss)
    BY DEF T!FlattenSeq, FlattenSeq
  <2>2. ASSUME NEW depth \in 0..n, depth # 0
        PROVE  Body(c)[depth] = down(c[depth - 1])
    BY <2>1, <2>2 DEF Level, PartsOf, BeginOf, StampOf
  <2>3. ASSUME NEW depth \in 0..n
        PROVE  Body(c)[depth] = Nested(c)[depth]
    <3>1. CASE depth = 0
      BY <3>1
    <3>2. CASE depth # 0
      <4>1. Nested(c)[depth] = down(c[depth - 1])
        BY <3>2
      <4> HIDE DEF Body, Nested, down
      <4> QED BY <2>2, <3>2, <4>1
    <3> QED BY <3>1, <3>2
  <2>4. Body(c) = [i \in 0..n |-> Body(c)[i]] /\ Nested(c) = [i \in 0..n |-> Nested(c)[i]]
    OBVIOUS
  <2> HIDE DEF Body, Nested, n
  <2> QED BY <2>3, <2>4
<1> DEFINE step == [i \in 1..n |-> [h \in S |-> down(h)]]
<1>5. PICK f : Computes(f, n, S, start, step)
  <2> HIDE DEF S, start, down, n
  <2>1. [h \in S |-> down(h)] \in [S -> S]
    BY <1>3
  <2>2. step \in [1..n -> [S -> S]]
    BY <2>1
  <2> HIDE DEF step
  <2> QED BY <1>1, <1>2, <2>2, Recursion
<1>6. \A i \in 1..n : i - 1 \in 0..n /\ f[i] = down(f[i - 1])
  <2>1. \A i \in 1..n : i - 1 \in 0..n
    BY <1>1
  <2> HIDE DEF S, start, down, n
  <2> QED BY <1>5, <2>1 DEF Computes
<1>7. f = Nested(f)
  <2>1. ASSUME NEW i \in 0..n
        PROVE  f[i] = Nested(f)[i]
    <3>1. CASE i = 0
      <4> HIDE DEF start, S, step, down
      <4> QED BY <1>5, <3>1 DEF Computes
    <3>2. CASE i # 0
      <4>1. i \in 1..n
        BY <1>1, <3>2
      <4> HIDE DEF down
      <4> QED BY <1>6, <3>2, <4>1
    <3> QED BY <3>1, <3>2
  <2>2. f = [i \in 0..n |-> f[i]]
    <3> HIDE DEF S, step, start
    <3> QED BY <1>5 DEF Computes
  <2>3. Nested(f) = [i \in 0..n |-> Nested(f)[i]]
    OBVIOUS
  <2> HIDE DEF Nested, n
  <2> QED BY <2>1, <2>2, <2>3
<1> DEFINE w == CHOOSE c : c = Body(c)
<1>8. w = Nested(w)
  <2> HIDE DEF Body, Nested
  <2> QED BY <1>4, <1>7
<1>9. T!Collected(root) = w[n][root]
  BY DEF T!Collected, T!Cardinality, Cardinality
<1> DEFINE U == {i \in 0..n : w[i] \in S}
<1>10. 0 \in U
  <2>1. 0 \in 0..n
    BY <1>1
  <2>2. w[0] = start
    <3> HIDE DEF w, start, down
    <3> QED BY <1>8, <2>1
  <2> HIDE DEF w, start, S
  <2> QED BY <1>2, <2>1, <2>2
<1>11. ASSUME NEW i \in 0..n, i \in U, i < n
       PROVE  i + 1 \in U
  <2>1. i + 1 \in 0..n /\ i + 1 # 0 /\ (i + 1) - 1 = i
    <3> HIDE DEF U, n
    <3> QED BY <1>1, <1>11
  <2>2. w[i + 1] = down(w[i])
    <3> HIDE DEF w, down, n, start
    <3> QED BY <1>8, <2>1
  <2> HIDE DEF w, down, S
  <2> QED BY <1>3, <1>11, <2>1, <2>2
<1>12. w[n] \in S
  <2> HIDE DEF U
  <2>1. n \in 0..n /\ 0..n \subseteq U
    BY <1>1, <1>10, <1>11, UpTo
  <2> QED BY <2>1 DEF U
<1> HIDE DEF w
<1> QED BY <1>9, <1>12

\* What an event is made of.
LEMMA EventParts ==
  ASSUME NEW e \in EventSet
  PROVE  /\ e.tx \in DOMAIN ts /\ e.what \in {"Begin", "Timestamp"}
         /\ e.start \in Nat /\ e.end \in Nat
  BY DEF EventSet

\* The event that is taken is the first of the sorted ones.
LEMMA NextIsLeast ==
  ASSUME events \in Seq(EventSet), events # <<>>
  PROVE  T!NextEvent \in 1..Len(events) /\ \A j \in 1..Len(events) : Sooner(T!NextEvent, j)
<1> DEFINE n == Len(events)
           starts == {events[i].start : i \in 1..n}
<1>1. n \in Nat \ {0} /\ DOMAIN events = 1..n /\ \A i \in 1..n : events[i].start \in Nat
  BY LenProperties, ElementOfSeq, EmptySeq, EventParts
<1>2. starts \in SUBSET Nat /\ starts # {}
  <2>1. 1 \in 1..n
    BY <1>1
  <2> HIDE DEF n
  <2> QED BY <1>1, <2>1
<1>3. PICK s \in starts : \A x \in starts : s <= x
  <2> HIDE DEF starts
  <2> QED BY <1>2, LeastElement
<1> DEFINE first == {i \in 1..n : events[i].start = s}
<1>4. first \in SUBSET Nat /\ first # {}
  OBVIOUS
<1>5. PICK k \in first : \A i \in first : k <= i
  <2> HIDE DEF first
  <2> QED BY <1>4, LeastElement
<1>6. \A j \in 1..n : Sooner(k, j)
  <2> TAKE j \in 1..n
  <2>1. k \in 1..n /\ events[k].start = s /\ s <= events[j].start
    BY <1>3
  <2>2. events[j].start = s => k <= j
    BY <1>5
  <2> HIDE DEF n, starts, first
  <2> QED BY <1>1, <2>1, <2>2 DEF Sooner
<1>7. k \in 1..n
  OBVIOUS
<1>8. T!NextEvent = CHOOSE i \in 1..n : \A j \in 1..n : Sooner(i, j)
  <2> HIDE DEF n
  <2> QED BY <1>1 DEF T!NextEvent, Sooner
<1> QED BY <1>6, <1>7, <1>8

\* No other event is.
LEMMA LeastIsOne ==
  ASSUME events \in Seq(EventSet), NEW i \in 1..Len(events), NEW j \in 1..Len(events),
         Sooner(i, j), Sooner(j, i)
  PROVE  i = j
<1>1. i \in Int /\ j \in Int
  BY LenProperties
<1>2. events[i].start \in Nat /\ events[j].start \in Nat
  BY ElementOfSeq, EventParts
<1> QED BY <1>1, <1>2 DEF Sooner

\* Where an event was, and where it is when the k-th is gone.
Was(k, i) == IF i < k THEN i ELSE i + 1
Is(k, i) == IF i < k THEN i ELSE i - 1

\* The events without the k-th.
Without(es, k, fs) ==
  /\ fs \in Seq(EventSet)
  /\ \A i \in 1..Len(fs) : Was(k, i) \in 1..Len(es) /\ Was(k, i) # k /\ fs[i] = es[Was(k, i)]
  /\ \A i \in 1..Len(es) : i # k => /\ Is(k, i) \in 1..Len(fs) /\ fs[Is(k, i)] = es[i]
                                    /\ Was(k, Is(k, i)) = i
  /\ \A i \in 1..Len(fs) : Is(k, Was(k, i)) = i

LEMMA RemovedAt ==
  ASSUME NEW es \in Seq(EventSet), NEW k \in 1..Len(es)
  PROVE  Without(es, k, T!RemoveAt(es, k))
<1> DEFINE n == Len(es)
           a == SubSeq(es, 1, k - 1)
           b == SubSeq(es, k + 1, n)
           fs == a \o b
<1>1. n \in Nat /\ k \in 1..n /\ \A i \in 1..n : es[i] \in EventSet
  BY LenProperties, ElementOfSeq
<1>2. T!RemoveAt(es, k) = fs
  BY DEF T!RemoveAt
<1>3. /\ a \in Seq(EventSet) /\ Len(a) = k - 1 /\ \A i \in 1..(k - 1) : a[i] = es[i]
  <2> HIDE DEF n
  <2>1. 1 \in Int /\ k - 1 \in Int /\ \A i \in 1..(k - 1) : i \in 1..n
    BY <1>1
  <2>2. \A i \in 1..(k - 1) : es[i] \in EventSet
    BY <1>1, <2>1
  <2>3. /\ a \in Seq(EventSet) /\ Len(a) = IF 1 <= k - 1 THEN k - 1 - 1 + 1 ELSE 0
        /\ \A i \in 1..(k - 1 - 1 + 1) : a[i] = es[1 + i - 1]
    BY <2>1, <2>2, SubSeqProperties
  <2>4. \A i \in 1..(k - 1) : i \in 1..(k - 1 - 1 + 1) /\ 1 + i - 1 = i
    BY <1>1
  <2>5. Len(a) = k - 1
    BY <1>1, <2>3
  <2> HIDE DEF a
  <2> QED BY <2>3, <2>4, <2>5
<1>4. /\ b \in Seq(EventSet) /\ Len(b) = n - k /\ \A i \in 1..(n - k) : b[i] = es[k + i]
  <2> HIDE DEF n
  <2>1. k + 1 \in Int /\ n \in Int /\ \A i \in (k + 1)..n : i \in 1..n
    BY <1>1
  <2>2. \A i \in (k + 1)..n : es[i] \in EventSet
    BY <1>1, <2>1
  <2>3. /\ b \in Seq(EventSet) /\ Len(b) = IF k + 1 <= n THEN n - (k + 1) + 1 ELSE 0
        /\ \A i \in 1..(n - (k + 1) + 1) : b[i] = es[k + 1 + i - 1]
    BY <2>1, <2>2, SubSeqProperties
  <2>4. \A i \in 1..(n - k) : i \in 1..(n - (k + 1) + 1) /\ k + 1 + i - 1 = k + i
    BY <1>1
  <2>5. Len(b) = n - k
    BY <1>1, <2>3
  <2> HIDE DEF b
  <2> QED BY <2>3, <2>4, <2>5
<1> HIDE DEF a, b
<1>5. /\ fs \in Seq(EventSet) /\ Len(fs) = Len(a) + Len(b)
      /\ \A i \in 1..(Len(a) + Len(b)) : fs[i] = IF i <= Len(a) THEN a[i] ELSE b[i - Len(a)]
  BY <1>3, <1>4, ConcatProperties
<1> HIDE DEF fs, n
<1>6. Len(fs) = n - 1 /\ Len(a) + Len(b) = n - 1
  BY <1>1, <1>3, <1>4, <1>5
<1>7. \A i \in 1..(n - 1) : /\ Was(k, i) \in 1..n /\ Was(k, i) # k /\ Is(k, Was(k, i)) = i
                            /\ i < k => i \in 1..(k - 1) /\ i <= k - 1
                            /\ ~(i < k) => i - (k - 1) \in 1..(n - k) /\ ~(i <= k - 1)
                                           /\ k + (i - (k - 1)) = i + 1
  BY <1>1 DEF Was, Is
<1>8. ASSUME NEW i \in 1..(n - 1)
      PROVE  fs[i] = es[Was(k, i)]
  <2>1. fs[i] = IF i <= k - 1 THEN a[i] ELSE b[i - (k - 1)]
    BY <1>3, <1>5, <1>6
  <2>2. CASE i < k
    BY <1>3, <1>7, <2>1, <2>2 DEF Was
  <2>3. CASE ~(i < k)
    BY <1>4, <1>7, <2>1, <2>3 DEF Was
  <2> QED BY <2>2, <2>3
<1>9. \A i \in 1..n : i # k => Is(k, i) \in 1..(n - 1) /\ Was(k, Is(k, i)) = i
  BY <1>1 DEF Was, Is
<1>10. Without(es, k, fs)
  BY <1>5, <1>6, <1>7, <1>8, <1>9 DEF Without, n
<1> QED BY <1>2, <1>10

\* What is left when the first of the sorted events is gone is as it was.
LEMMA WithoutFirst ==
  ASSUME events \in Seq(EventSet), NEW k \in 1..Len(events), NEW fs,
         Without(events, k, fs), \A j \in 1..Len(events) : Sooner(k, j),
         OneBegin(events), StampNext(events), OwnTimes(events)
  PROVE  OneBegin(fs) /\ StampNext(fs) /\ OwnTimes(fs)
<1>1. /\ \A i \in 1..Len(fs) : /\ Was(k, i) \in 1..Len(events) /\ Was(k, i) # k
                               /\ fs[i] = events[Was(k, i)] /\ Is(k, Was(k, i)) = i
      /\ \A i \in 1..Len(events) : i # k => /\ Is(k, i) \in 1..Len(fs) /\ fs[Is(k, i)] = events[i]
                                            /\ Was(k, Is(k, i)) = i
  BY DEF Without
<1>2. OneBegin(fs)
  <2> SUFFICES ASSUME NEW i \in 1..Len(fs), NEW j \in 1..Len(fs),
                      fs[i].what = "Begin", fs[j].what = "Begin", fs[i].tx = fs[j].tx
               PROVE  i = j
    BY DEF OneBegin
  <2>1. Was(k, i) = Was(k, j)
    BY <1>1 DEF OneBegin
  <2> QED BY <1>1, <2>1
<1>3. StampNext(fs)
  <2> SUFFICES ASSUME NEW i \in 1..Len(fs), Drawable(fs[i]), ts[fs[i].tx].type # "Session"
               PROVE  /\ i + 1 \in 1..Len(fs) /\ fs[i + 1].what = "Timestamp"
                      /\ fs[i + 1].tx = fs[i].tx /\ fs[i + 1].start = fs[i].start
    BY DEF StampNext
  <2> DEFINE p == Was(k, i)
  <2>1. p \in 1..Len(events) /\ p # k /\ fs[i] = events[p] /\ Is(k, p) = i
    BY <1>1
  <2>2. /\ p + 1 \in 1..Len(events) /\ events[p + 1].what = "Timestamp"
        /\ events[p + 1].tx = events[p].tx /\ events[p + 1].start = events[p].start
    BY <2>1 DEF StampNext
  <2>3. p \in Int /\ k \in Int /\ i \in Int /\ events[p].start \in Nat
    <3>1. Len(fs) \in Nat /\ Len(events) \in Nat
      BY LenProperties DEF Without
    <3>2. events[p].start \in Nat
      BY <2>1, ElementOfSeq, EventParts
    <3>3. 1..Len(fs) \subseteq Int /\ 1..Len(events) \subseteq Int
      BY <3>1
    <3> HIDE DEF p
    <3> QED BY <2>1, <3>2, <3>3
  <2>4. p + 1 # k
    <3> SUFFICES ASSUME p + 1 = k
                 PROVE  FALSE
      OBVIOUS
    <3> HIDE DEF p
    <3>1. Sooner(k, p) /\ events[k].start = events[p].start
      BY <2>1, <2>2
    <3> QED BY <2>3, <3>1 DEF Sooner
  <2>5. Is(k, p + 1) = i + 1
    BY <2>1, <2>3, <2>4 DEF Is, Was
  <2> HIDE DEF p
  <2> QED BY <1>1, <2>1, <2>2, <2>4, <2>5
<1>4. OwnTimes(fs)
  <2> SUFFICES ASSUME NEW i \in 1..Len(fs)
               PROVE  IF fs[i].what = "Begin"
                      THEN fs[i].start = T!StartTime(fs[i].tx) /\ fs[i].end = T!EndTime(fs[i].tx)
                      ELSE /\ ts[fs[i].tx].type # "Session"
                           /\ T!StartTime(fs[i].tx) # 0 /\ T!StartTime(fs[i].tx) <= fs[i].start
    BY DEF OwnTimes
  <2>1. Was(k, i) \in 1..Len(events) /\ fs[i] = events[Was(k, i)]
    BY <1>1
  <2> DEFINE p == Was(k, i)
  <2> HIDE DEF p
  <2>2. p \in 1..Len(events) /\ fs[i] = events[p]
    BY <2>1 DEF p
  <2> QED BY <2>2 DEF OwnTimes
<1> QED BY <1>2, <1>3, <1>4

\* The rows that hold an event of a transaction.
RowsWith(R, v, what) ==
  {r \in DOMAIN R : \E i \in DOMAIN R[r] : R[r][i].tx = v /\ R[r][i].what = what}

\* A row more, or an event more on a row.
OnRow(R, p, e, Q) ==
  /\ Q \in Seq(Seq(EventSet)) /\ Len(R) <= Len(Q) /\ p \in 1..Len(Q)
  /\ \A v, what : RowsWith(Q, v, what) =
       RowsWith(R, v, what) \cup {r \in {p} : e.tx = v /\ e.what = what}
  /\ \A r \in 1..Len(R) : r # p => Q[r] = R[r]
  /\ R = <<>> => Q[1] = <<e>>

LEMMA EventAdded ==
  ASSUME NEW R \in Seq(Seq(EventSet)), NEW index \in 0..Len(R), NEW e \in EventSet,
         NEW Q, Q = IF index \in 0..(Len(R) - 1) THEN [R EXCEPT ![index + 1] = Append(@, e)]
                    ELSE Append(R, <<e>>)
  PROVE  OnRow(R, index + 1, e, Q)
<1> DEFINE p == index + 1
           n == Len(R)
<1>1. n \in Nat /\ DOMAIN R = 1..n /\ \A r \in 1..n : R[r] \in Seq(EventSet)
  BY LenProperties, ElementOfSeq
<1>2. <<e>> \in Seq(EventSet) /\ Len(<<e>>) = 1 /\ <<e>>[1] = e
  OBVIOUS
<1>3. CASE index \in 0..(n - 1)
  <2> DEFINE a == Append(R[p], e)
             m == Len(R[p])
  <2>1. p \in 1..n /\ R[p] \in Seq(EventSet)
    BY <1>1, <1>3
  <2>2. a \in Seq(EventSet) /\ Len(a) = m + 1 /\ (\A i \in 1..m : a[i] = R[p][i]) /\ a[m + 1] = e
    BY <2>1, AppendProperties
  <2>3. m \in Nat /\ DOMAIN R[p] = 1..m /\ DOMAIN a = 1..(m + 1)
    BY <2>1, <2>2, LenProperties
  <2>4. Q = [R EXCEPT ![p] = a]
    BY <1>3
  <2> HIDE DEF a, m, n, p
  <2>5. /\ Q \in Seq(Seq(EventSet)) /\ Len(Q) = n
        /\ \A r \in 1..n : Q[r] = IF r = p THEN a ELSE R[r]
    <3> DEFINE S == Seq(EventSet)
    <3>1. R \in Seq(S) /\ a \in S /\ p \in 1..Len(R)
      BY <2>1, <2>2 DEF n
    <3> HIDE DEF S
    <3>2. /\ [R EXCEPT ![p] = a] \in Seq(S) /\ Len([R EXCEPT ![p] = a]) = Len(R)
          /\ \A r \in 1..Len(R) : [R EXCEPT ![p] = a][r] = IF r = p THEN a ELSE R[r]
      BY <3>1, ExceptSeq
    <3> QED BY <2>4, <3>2 DEF S, n
  <2>6. DOMAIN Q = 1..n
    BY <2>5, LenProperties
  <2>7. ASSUME NEW v, NEW what
        PROVE  RowsWith(Q, v, what) = RowsWith(R, v, what) \cup {r \in {p} : e.tx = v /\ e.what = what}
    <3>1. ASSUME NEW r \in 1..n, r # p
          PROVE  r \in RowsWith(Q, v, what) <=> r \in RowsWith(R, v, what)
      <4>1. Q[r] = R[r] /\ r \in DOMAIN R /\ r \in DOMAIN Q
        BY <1>1, <2>5, <2>6, <3>1
      <4> QED BY <4>1 DEF RowsWith
    <3>2. (\E i \in 1..(m + 1) : a[i].tx = v /\ a[i].what = what)
            <=> (\E i \in 1..m : R[p][i].tx = v /\ R[p][i].what = what) \/ (e.tx = v /\ e.what = what)
      <4>1. \A i \in 1..(m + 1) : i \in 1..m \/ i = m + 1
        BY <2>3
      <4>2. m + 1 \in 1..(m + 1) /\ \A i \in 1..m : i \in 1..(m + 1)
        BY <2>3
      <4>3. /\ \A i \in 1..m : a[i] = R[p][i]
            /\ a[m + 1] = e
        BY <2>2
      <4> QED BY <4>1, <4>2, <4>3
    <3>3. p \in RowsWith(Q, v, what) <=> p \in RowsWith(R, v, what) \/ (e.tx = v /\ e.what = what)
      <4>1. Q[p] = a
        BY <2>1, <2>5
      <4>2. p \in RowsWith(Q, v, what) <=> \E i \in 1..(m + 1) : a[i].tx = v /\ a[i].what = what
        BY <2>1, <2>3, <2>6, <4>1 DEF RowsWith
      <4>3. p \in RowsWith(R, v, what) <=> \E i \in 1..m : R[p][i].tx = v /\ R[p][i].what = what
        BY <1>1, <2>1, <2>3 DEF RowsWith
      <4> QED BY <3>2, <4>2, <4>3
    <3>4. RowsWith(Q, v, what) \subseteq 1..n /\ RowsWith(R, v, what) \subseteq 1..n
      BY <1>1, <2>6 DEF RowsWith
    <3> QED BY <2>1, <3>1, <3>3, <3>4
  <2>8. R # <<>>
    BY <1>1, <1>3, EmptySeq DEF n
  <2>9. Len(R) <= Len(Q) /\ p \in 1..Len(Q) /\ \A r \in 1..Len(R) : r # p => Q[r] = R[r]
    <3>1. n <= n /\ n = Len(Q)
      BY <1>1, <2>5
    <3>2. n = Len(R)
      BY DEF n
    <3> QED BY <2>1, <2>5, <3>1, <3>2
  <2> QED BY <2>5, <2>7, <2>8, <2>9 DEF OnRow, p
<1>4. CASE index \notin 0..(n - 1)
  <2>1. index = n /\ p = n + 1
    <3>1. index \in 0..n
      OBVIOUS
    <3> HIDE DEF n
    <3> QED BY <1>1, <1>4, <3>1
  <2> DEFINE one == <<e>>
  <2>2. one \in Seq(EventSet) /\ DOMAIN one = {1} /\ one[1] = e
    OBVIOUS
  <2>3. Q = Append(R, one)
    BY <1>4
  <2> HIDE DEF one, n, p
  <2>4. /\ Q \in Seq(Seq(EventSet)) /\ Len(Q) = n + 1
        /\ (\A r \in 1..n : Q[r] = R[r]) /\ Q[n + 1] = one
    <3> DEFINE S == Seq(EventSet)
    <3>1. R \in Seq(S) /\ one \in S
      BY <2>2
    <3> HIDE DEF S
    <3>2. /\ Append(R, one) \in Seq(S) /\ Len(Append(R, one)) = Len(R) + 1
          /\ (\A r \in 1..Len(R) : Append(R, one)[r] = R[r]) /\ Append(R, one)[Len(R) + 1] = one
      BY <3>1, AppendProperties
    <3> QED BY <2>3, <3>2 DEF S, n
  <2>5. DOMAIN Q = 1..(n + 1)
    BY <2>4, LenProperties
  <2>6. (\A r \in 1..(n + 1) : r \in 1..n \/ r = n + 1) /\ n + 1 \notin 1..n /\ n + 1 \in 1..(n + 1)
        /\ \A r \in 1..n : r \in 1..(n + 1)
    BY <1>1
  <2>7. ASSUME NEW v, NEW what
        PROVE  RowsWith(Q, v, what) = RowsWith(R, v, what) \cup {r \in {p} : e.tx = v /\ e.what = what}
    <3>1. \A r \in 1..n : r \in RowsWith(Q, v, what) <=> r \in RowsWith(R, v, what)
      BY <1>1, <2>4, <2>5, <2>6 DEF RowsWith
    <3>2. n + 1 \in RowsWith(Q, v, what) <=> e.tx = v /\ e.what = what
      BY <2>2, <2>4, <2>5, <2>6 DEF RowsWith
    <3>3. RowsWith(Q, v, what) \subseteq 1..(n + 1) /\ RowsWith(R, v, what) \subseteq 1..n
      BY <1>1, <2>5 DEF RowsWith
    <3> QED BY <2>1, <2>6, <3>1, <3>2, <3>3
  <2>8. R = <<>> => Q[1] = <<e>>
    <3>1. R = <<>> => n = 0
      BY EmptySeq DEF n
    <3> QED BY <2>4, <3>1 DEF one
  <2>9. Len(R) <= Len(Q) /\ p \in 1..Len(Q) /\ \A r \in 1..Len(R) : r # p => Q[r] = R[r]
    BY <1>1, <2>1, <2>4, <2>6 DEF n
  <2> QED BY <2>4, <2>7, <2>8, <2>9 DEF OnRow, p
<1> QED BY <1>3, <1>4 DEF n

\* The set stays the same, and with it the times of its transactions.
LEMMA SameTimes ==
  ASSUME ts' = ts
  PROVE  /\ EventSet' = EventSet
         /\ \A v : T!StartTime(v)' = T!StartTime(v)
         /\ \A v : T!EndTime(v)' = T!EndTime(v)
<1>1. EventSet' = EventSet
  BY DEF EventSet
<1>2. \A v, tag, first : T!RecordByTag(v, tag, first)' = T!RecordByTag(v, tag, first)
  BY DEF T!RecordByTag
<1>3. \A v : T!StartTime(v)' = T!StartTime(v)
  BY <1>2 DEF T!StartTime
<1>4. \A v : T!EndTime(v)' = T!EndTime(v)
  BY <1>2 DEF T!EndTime
<1> QED BY <1>1, <1>3, <1>4

\* What is taken: nothing but the timestamp of a request that waits for it.
LEMMA NextTaken ==
  ASSUME TimelineInv, events # <<>>, NEW k, k = T!NextEvent, NEW e, e = events[k]
  PROVE  /\ k \in 1..Len(events) /\ e \in EventSet
         /\ \A j \in 1..Len(events) : Sooner(k, j)
         /\ Without(events, k, T!RemoveAt(events, k))
         /\ Awaiting => e.what = "Timestamp" /\ e.tx = lastTx
         /\ e.what = "Timestamp" => e.tx \in DOMAIN txRows \/ (Awaiting /\ e.tx = lastTx)
<1>1. events \in Seq(EventSet) /\ EventsInv
  BY DEF TimelineInv, TimelineTypes
<1>2. k \in 1..Len(events) /\ \A j \in 1..Len(events) : Sooner(k, j)
  BY <1>1, NextIsLeast
<1>3. e \in EventSet /\ Without(events, k, T!RemoveAt(events, k))
  BY <1>1, <1>2, ElementOfSeq, RemovedAt
<1>4. Awaiting => e.what = "Timestamp" /\ e.tx = lastTx
  <2> SUFFICES ASSUME Awaiting
               PROVE  e.what = "Timestamp" /\ e.tx = lastTx
    OBVIOUS
  <2>1. PICK i \in 1..Len(events) : /\ events[i].what = "Timestamp" /\ events[i].tx = lastTx
                                    /\ \A j \in 1..Len(events) : Sooner(i, j)
    BY <1>1 DEF EventsInv
  <2>2. i = k
    BY <1>1, <1>2, <2>1, LeastIsOne
  <2> QED BY <2>1, <2>2
<1>5. ~(e.what = "Timestamp" /\ HasBegun(events, k))
  <2> SUFFICES ASSUME HasBegun(events, k)
               PROVE  FALSE
    OBVIOUS
  <2>1. PICK i \in 1..Len(events) : i < k /\ events[i].start <= events[k].start
    BY DEF HasBegun
  <2>2. Sooner(k, i)
    BY <1>2
  <2>3. events[i].start \in Nat /\ events[k].start \in Nat /\ i \in Int /\ k \in Int
    <3>1. events[i] \in EventSet /\ events[k] \in EventSet
      BY <1>1, <1>2, ElementOfSeq
    <3>2. i \in Int /\ k \in Int
      BY <1>1, <1>2, LenProperties
    <3> QED BY <3>1, <3>2, EventParts
  <2> QED BY <2>1, <2>2, <2>3 DEF Sooner
<1>6. e.what = "Timestamp" => e.tx \in DOMAIN txRows \/ (Awaiting /\ e.tx = lastTx)
  BY <1>1, <1>2, <1>5 DEF EventsInv
<1> QED BY <1>2, <1>3, <1>4, <1>6

\* One event less.
LEMMA OneLess ==
  ASSUME TimelineInv, events # <<>>, ts' = ts, NEW k, k = T!NextEvent,
         events' = T!RemoveAt(events, k)
  PROVE  /\ Without(events, k, events')
         /\ events' \in Seq(EventSet)
         /\ OneBegin(events)' /\ StampNext(events)' /\ OwnTimes(events)'
<1>1. k \in 1..Len(events) /\ Without(events, k, events') /\ \A j \in 1..Len(events) : Sooner(k, j)
  BY NextTaken
<1>2. events \in Seq(EventSet) /\ OneBegin(events) /\ StampNext(events) /\ OwnTimes(events)
  BY DEF TimelineInv, TimelineTypes, EventsInv
<1> DEFINE fs == events'
<1>3. OneBegin(fs) /\ StampNext(fs) /\ OwnTimes(fs)
  <2>1. Without(events, k, fs)
    BY <1>1
  <2> HIDE DEF fs
  <2> QED BY <1>1, <1>2, <2>1, WithoutFirst
<1>4. OneBegin(events)'
  BY <1>3 DEF OneBegin
<1>5. StampNext(events)'
  BY <1>3 DEF StampNext, Drawable
<1>6. OwnTimes(events)'
  <2> SUFFICES ASSUME NEW i \in 1..Len(fs)
               PROVE  (IF events[i].what = "Begin"
                       THEN /\ events[i].start = T!StartTime(events[i].tx)
                            /\ events[i].end = T!EndTime(events[i].tx)
                       ELSE /\ ts[events[i].tx].type # "Session"
                            /\ T!StartTime(events[i].tx) # 0
                            /\ T!StartTime(events[i].tx) <= events[i].start)'
    BY DEF OwnTimes
  <2>1. IF fs[i].what = "Begin"
        THEN fs[i].start = T!StartTime(fs[i].tx) /\ fs[i].end = T!EndTime(fs[i].tx)
        ELSE /\ ts[fs[i].tx].type # "Session"
             /\ T!StartTime(fs[i].tx) # 0 /\ T!StartTime(fs[i].tx) <= fs[i].start
    <3> HIDE DEF fs
    <3> QED BY <1>3 DEF OwnTimes
  <2> QED BY <2>1, SameTimes
<1> QED BY <1>1, <1>4, <1>5, <1>6 DEF Without

\* The rows that hold an event, in this step and the next.
LEMMA RowsAre ==
  /\ \A v, what : T!RowsOf(v, what) = RowsWith(rows, v, what)
  /\ \A v : Begins(v) = RowsWith(rows, v, "Begin")
  BY DEF T!RowsOf, RowsWith, Begins

LEMMA RowsWillBe ==
  /\ \A v, what : T!RowsOf(v, what)' = RowsWith(rows', v, what)
  /\ \A v : Begins(v)' = RowsWith(rows', v, "Begin")
  BY DEF T!RowsOf, RowsWith, Begins

\* A transaction is drawn on a row that is there or on the next one.
LEMMA BeginDrawn ==
  ASSUME TimelineInv, T!DrawBegin, NEW k, k = T!NextEvent, NEW e, e = events[k],
         NEW index, index = T!EraIndex(e)
  PROVE  /\ events # <<>> /\ Drawable(e) /\ ~Awaiting
         /\ index \in 0..Len(rows) /\ OnRow(rows, index + 1, e, rows')
         /\ currentIndex' = IF ts[e.tx].type = "Session" THEN index ELSE index + 1
         /\ lastTx' = e.tx /\ ts' = ts /\ txRows' = txRows
         /\ events' = T!RemoveAt(events, k)
<1>1. /\ events # <<>> /\ e.what = "Begin" /\ e.start # 0 /\ e.end # 0
      /\ T!AddEvent(index, e)
      /\ currentIndex' = index + IF ts[e.tx].type = "Session" THEN 0 ELSE 1
      /\ lastTx' = e.tx /\ ts' = ts /\ txRows' = txRows
      /\ events' = T!RemoveAt(events, k)
  BY DEF T!DrawBegin
<1>2. ~Awaiting /\ e \in EventSet
  BY <1>1, NextTaken
<1>3. /\ rows \in Seq(Seq(EventSet)) /\ Len(rows) \in Nat /\ currentIndex \in Int
      /\ currentIndex < Len(rows)
      /\ lastTx = 0 => currentIndex = -1
      /\ lastTx # 0 => Len(rows) # 0 /\ currentIndex >= 0
  BY <1>2, LenProperties DEF TimelineInv, TimelineTypes, RowsInv
<1>4. index \in 0..Len(rows)
  <2>1. index \in {T!NextIndex(e), 0, 1} /\ (index = 1 => lastTx # 0 \/ index = T!NextIndex(e))
    BY DEF T!EraIndex, T!OtherRequest
  <2>2. T!NextIndex(e) \in {currentIndex, currentIndex + 1} /\ (T!NextIndex(e) = currentIndex => currentIndex >= 0)
    BY <1>3 DEF T!NextIndex, T!HasRow
  <2>3. T!NextIndex(e) \in 0..Len(rows)
    BY <1>3, <2>2
  <2> QED BY <1>3, <2>1, <2>3
<1>5. OnRow(rows, index + 1, e, rows')
  <2>1. rows' = IF index \in 0..(Len(rows) - 1) THEN [rows EXCEPT ![index + 1] = Append(@, e)]
                ELSE Append(rows, <<e>>)
    BY <1>1 DEF T!AddEvent, T!HasRow
  <2> QED BY <1>2, <1>3, <1>4, <2>1, EventAdded
<1>6. currentIndex' = IF ts[e.tx].type = "Session" THEN index ELSE index + 1
  <2>1. index + 0 = index
    BY <1>3, <1>4
  <2> QED BY <1>1, <2>1
<1> QED BY <1>1, <1>2, <1>4, <1>5, <1>6 DEF Drawable

\* The invariant is kept when a transaction is drawn: the types,
LEMMA BeginKeepsTypes ==
  ASSUME TimelineInv, T!DrawBegin
  PROVE  TimelineTypes'
<1> DEFINE k == T!NextEvent
           e == events[k]
           index == T!EraIndex(e)
<1>1. /\ events # <<>> /\ index \in 0..Len(rows) /\ OnRow(rows, index + 1, e, rows')
      /\ currentIndex' \in {index, index + 1}
      /\ lastTx' = e.tx /\ ts' = ts /\ events' = T!RemoveAt(events, k)
  BY BeginDrawn
<1>2. e \in EventSet
  BY <1>1, NextTaken
<1>3. events' \in Seq(EventSet)
  BY <1>1, OneLess
<1>4. rows' \in Seq(Seq(EventSet)) /\ EventSet' = EventSet
  BY <1>1, SameTimes DEF OnRow
<1>5. e.tx \in DOMAIN ts
  BY <1>2, EventParts
<1>6. currentIndex' \in Int
  <2> HIDE DEF index
  <2>1. index \in Int
    BY <1>1
  <2> QED BY <1>1, <2>1
<1>7. ts \in DrawnSets
  BY DEF TimelineInv, TimelineTypes
<1> QED BY <1>1, <1>3, <1>4, <1>5, <1>6, <1>7 DEF TimelineTypes

\* the events that are left,
LEMMA BeginKeepsEvents ==
  ASSUME TimelineInv, T!DrawBegin
  PROVE  EventsInv'
<1>0. PICK k, e : k = T!NextEvent /\ e = events[k]
  OBVIOUS
<1> DEFINE fs == events'
<1>1. /\ events # <<>> /\ Drawable(e) /\ ~Awaiting
      /\ OnRow(rows, T!EraIndex(e) + 1, e, rows')
      /\ lastTx' = e.tx /\ ts' = ts /\ txRows' = txRows /\ events' = T!RemoveAt(events, k)
  BY <1>0, BeginDrawn
<1>2. k \in 1..Len(events) /\ e \in EventSet /\ \A j \in 1..Len(events) : Sooner(k, j)
  BY <1>0, <1>1, NextTaken
<1>3. /\ Without(events, k, fs) /\ fs \in Seq(EventSet)
      /\ OneBegin(events)' /\ StampNext(events)' /\ OwnTimes(events)'
  BY <1>0, <1>1, OneLess
<1>4. e.what = "Begin" /\ e.start # 0 /\ e.end # 0 /\ e.tx \in DOMAIN ts /\ e.start \in Nat
  BY <1>1, <1>2, EventParts DEF Drawable
<1>5. \A v : v # e.tx => Begins(v)' = Begins(v)
  <2> TAKE v
  <2> HAVE v # e.tx
  <2>1. RowsWith(rows', v, "Begin") = RowsWith(rows, v, "Begin")
    <3> DEFINE p == T!EraIndex(e) + 1
    <3>1. {r \in {p} : e.tx = v /\ e.what = "Begin"} = {}
      OBVIOUS
    <3>2. RowsWith(rows', v, "Begin") =
            RowsWith(rows, v, "Begin") \cup {r \in {p} : e.tx = v /\ e.what = "Begin"}
      BY <1>1 DEF OnRow
    <3> QED BY <3>1, <3>2
  <2> QED BY <2>1, RowsAre, RowsWillBe
<1>6. /\ \A i \in 1..Len(fs) : /\ Was(k, i) \in 1..Len(events) /\ Was(k, i) # k
                               /\ fs[i] = events[Was(k, i)]
      /\ \A i \in 1..Len(events) : i # k => /\ Is(k, i) \in 1..Len(fs) /\ fs[Is(k, i)] = events[i]
                                            /\ Was(k, Is(k, i)) = i
      /\ \A i \in 1..Len(fs) : Is(k, Was(k, i)) = i
  BY <1>3 DEF Without
<1>7. EventsInv /\ events \in Seq(EventSet) /\ Len(events) \in Nat /\ Len(fs) \in Nat
  BY <1>3, LenProperties DEF TimelineInv, TimelineTypes
<1> HIDE DEF fs
<1>8. ASSUME NEW i \in 1..Len(fs), fs[i].what = "Begin"
      PROVE  (LET v == events[i].tx IN Begins(v) = {} /\ v \notin DOMAIN txRows /\ v # lastTx)'
  <2> DEFINE p == Was(k, i)
  <2>1. p \in 1..Len(events) /\ p # k /\ fs[i] = events[p]
    BY <1>6
  <2>2. fs[i].tx # e.tx
    BY <1>0, <1>2, <1>4, <1>7, <1>8, <2>1 DEF EventsInv, OneBegin
  <2> HIDE DEF p
  <2>3. Begins(events[p].tx) = {} /\ events[p].tx \notin DOMAIN txRows
    BY <1>7, <1>8, <2>1 DEF EventsInv
  <2>4. PICK v : v = fs[i].tx
    OBVIOUS
  <2>5. Begins(v)' = {} /\ v \notin DOMAIN txRows' /\ v # lastTx'
    BY <1>1, <1>5, <2>1, <2>2, <2>3, <2>4
  <2> QED BY <2>4, <2>5 DEF fs
<1>9. ASSUME NEW j \in 1..Len(fs), fs[j].what = "Timestamp"
      PROVE  (LET v == events[j].tx
              IN  HasBegun(events, j) \/ v \in DOMAIN txRows \/ (Awaiting /\ v = lastTx))'
  <2> DEFINE p == Was(k, j)
             v == fs[j].tx
  <2>1. p \in 1..Len(events) /\ p # k /\ fs[j] = events[p] /\ Is(k, p) = j
    BY <1>6
  <2>2. HasBegun(events, p) \/ v \in DOMAIN txRows
    BY <1>1, <1>7, <1>9, <2>1 DEF EventsInv
  <2>3. CASE HasBegun(events, p)
    <3> HIDE DEF p
    <3>1. PICK i \in 1..Len(events) : /\ i < p /\ Drawable(events[i])
                                      /\ events[i].tx = events[p].tx /\ events[i].start <= events[p].start
      BY <2>3 DEF HasBegun
    <3>2. CASE i = k
      <4>1. ts[v].type # "Session"
        BY <1>7, <1>9, <2>1 DEF EventsInv, OwnTimes
      <4>2. v = e.tx /\ e.tx # 0
        BY <1>0, <2>1, <3>1, <3>2, <1>4, DrawnLog DEF TimelineInv, TimelineTypes
      <4>3. e.tx \notin DOMAIN txRows
        BY <1>0, <1>2, <1>4, <1>7 DEF EventsInv
      <4> QED BY <1>1, <4>1, <4>2, <4>3 DEF Awaiting, fs
    <3>3. CASE i # k
      <4> DEFINE q == Is(k, i)
      <4>1. q \in 1..Len(fs) /\ fs[q] = events[i] /\ Was(k, q) = i
        BY <1>6, <3>3
      <4>2. q < j
        <5>1. i \in Int /\ p \in Int /\ k \in Int
          BY <1>2, <1>7, <2>1
        <5> QED BY <2>1, <3>1, <3>3, <5>1 DEF Is
      <4> HIDE DEF q
      <4>3. Drawable(fs[q]) /\ fs[q].tx = fs[j].tx /\ fs[q].start <= fs[j].start
        BY <2>1, <3>1, <4>1
      <4>4. HasBegun(events, j)'
        BY <4>1, <4>2, <4>3 DEF HasBegun, Drawable, fs
      <4> QED BY <4>4
    <3> QED BY <3>2, <3>3
  <2>4. CASE v \in DOMAIN txRows
    BY <1>1, <2>4 DEF fs
  <2> QED BY <2>2, <2>3, <2>4
<1>10. ASSUME Awaiting'
       PROVE  \E i \in 1..Len(fs) : /\ fs[i].what = "Timestamp" /\ fs[i].tx = lastTx'
                                    /\ \A j \in 1..Len(fs) : Sooner(i, j)'
  <2>1. ts[e.tx].type # "Session"
    BY <1>1, <1>10 DEF Awaiting
  <2>2. /\ k + 1 \in 1..Len(events) /\ events[k + 1].what = "Timestamp"
        /\ events[k + 1].tx = e.tx /\ events[k + 1].start = e.start
    BY <1>0, <1>1, <1>2, <1>7, <2>1 DEF EventsInv, StampNext
  <2>3. k + 1 # k /\ Is(k, k + 1) = k /\ k \in Int
    BY <1>2, <1>7 DEF Is
  <2>4. k \in 1..Len(fs) /\ fs[k] = events[k + 1]
    BY <1>6, <2>2, <2>3
  <2>5. ASSUME NEW j \in 1..Len(fs)
        PROVE  fs[k].start < fs[j].start \/ (fs[k].start = fs[j].start /\ k <= j)
    <3> DEFINE p == Was(k, j)
    <3>1. p \in 1..Len(events) /\ p # k /\ fs[j] = events[p]
      BY <1>6
    <3>2. k <= p => k <= j
      <4>1. j \in Int
        BY <1>7
      <4> QED BY <2>3, <3>1, <4>1 DEF Was
    <3> HIDE DEF p
    <3>3. e.start < events[p].start \/ (e.start = events[p].start /\ k <= p)
      BY <1>0, <1>2, <3>1 DEF Sooner
    <3> QED BY <2>2, <2>4, <3>1, <3>2, <3>3
  <2>6. \A j \in 1..Len(fs) : Sooner(k, j)'
    BY <2>5 DEF Sooner, fs
  <2> QED BY <1>1, <2>2, <2>4, <2>6
<1> QED BY <1>3, <1>8, <1>9, <1>10 DEF EventsInv, fs

\* What else is on the rows.
LEMMA OnRowParts ==
  ASSUME NEW R, NEW p, NEW e, NEW Q, OnRow(R, p, e, Q)
  PROVE  /\ \A v, what : v # e.tx \/ what # e.what => RowsWith(Q, v, what) = RowsWith(R, v, what)
         /\ RowsWith(Q, e.tx, e.what) = RowsWith(R, e.tx, e.what) \cup {p}
<1>1. \A v, what : RowsWith(Q, v, what) =
        RowsWith(R, v, what) \cup {r \in {p} : e.tx = v /\ e.what = what}
  BY DEF OnRow
<1>2. {r \in {p} : e.tx = e.tx /\ e.what = e.what} = {p}
  OBVIOUS
<1>3. ASSUME NEW v, NEW what, v # e.tx \/ what # e.what
      PROVE  RowsWith(Q, v, what) = RowsWith(R, v, what)
  <2> DEFINE E == {r \in {p} : e.tx = v /\ e.what = what}
             X == RowsWith(R, v, what)
  <2>1. E = {}
    BY <1>3
  <2>2. RowsWith(Q, v, what) = X \cup E
    BY <1>1
  <2> HIDE DEF E, X
  <2>3. X \cup E = X
    BY <2>1
  <2> QED BY <2>2, <2>3 DEF X
<1> QED BY <1>1, <1>2, <1>3

\* What a session needs depends on nothing but the set.
LEMMA SameSession ==
  ASSUME ts' = ts
  PROVE  /\ \A s : OpenSession(s)' <=> OpenSession(s)
         /\ \A s : Reachable(ts, s)' = Reachable(ts, s)
<1>1. \A s : Reachable(ts, s)' = Reachable(ts, s)
  OBVIOUS
<1>2. \A v : T!StartTime(v)' = T!StartTime(v) /\ T!EndTime(v)' = T!EndTime(v)
  BY SameTimes
<1> QED BY <1>1, <1>2 DEF OpenSession

\* the rows,
LEMMA BeginKeepsRows ==
  ASSUME TimelineInv, T!DrawBegin
  PROVE  RowsInv'
<1>0. PICK k, e, index : k = T!NextEvent /\ e = events[k] /\ index = T!EraIndex(e)
  OBVIOUS
<1>1. /\ events # <<>> /\ Drawable(e) /\ ~Awaiting
      /\ index \in 0..Len(rows) /\ OnRow(rows, index + 1, e, rows')
      /\ currentIndex' = IF ts[e.tx].type = "Session" THEN index ELSE index + 1
      /\ lastTx' = e.tx /\ ts' = ts /\ txRows' = txRows
  BY <1>0, BeginDrawn
<1>2. k \in 1..Len(events) /\ e \in EventSet
  BY <1>0, <1>1, NextTaken
<1>3. e.what = "Begin" /\ e.tx \in DOMAIN ts /\ e.tx # 0
  BY <1>1, <1>2, EventParts, DrawnLog DEF Drawable, TimelineInv, TimelineTypes
<1>4. Begins(e.tx) = {} /\ e.tx \notin DOMAIN txRows
  BY <1>0, <1>2, <1>3 DEF TimelineInv, EventsInv
<1>5. /\ \A v : v # e.tx => Begins(v)' = Begins(v)
      /\ Begins(e.tx)' = {index + 1}
      /\ \A v : T!RowsOf(v, "Timestamp")' = T!RowsOf(v, "Timestamp")
  <2>1. /\ \A v, what : v # e.tx \/ what # e.what => RowsWith(rows', v, what) = RowsWith(rows, v, what)
        /\ RowsWith(rows', e.tx, e.what) = RowsWith(rows, e.tx, e.what) \cup {index + 1}
    BY <1>1, OnRowParts
  <2>2. RowsWith(rows, e.tx, "Begin") = {}
    BY <1>4, RowsAre
  <2> QED BY <1>3, <2>1, <2>2, RowsAre, RowsWillBe
<1>6. /\ Len(rows) \in Nat /\ Len(rows') \in Nat /\ Len(rows) <= Len(rows')
      /\ index + 1 \in 1..Len(rows') /\ index \in Nat
  BY <1>1, LenProperties DEF OnRow, TimelineInv, TimelineTypes
<1>7. RowsInv
  BY DEF TimelineInv
<1>8. \A v \in DOMAIN txRows : txRows[v] \in 1..Len(rows') /\ Begins(v)' = {txRows[v]}
  <2> TAKE v \in DOMAIN txRows
  <2>1. txRows[v] \in 1..Len(rows) /\ Begins(v) = {txRows[v]} /\ v # e.tx
    BY <1>4, <1>7 DEF RowsInv
  <2> QED BY <1>5, <1>6, <2>1
<1>9. \A v \in DOMAIN ts : \A r \in T!RowsOf(v, "Timestamp")' : v \in DOMAIN txRows /\ r = txRows[v] + 1
  BY <1>5, <1>7 DEF RowsInv
<1>10. \A v \in DOMAIN ts : \A q, r \in Begins(v)' : q = r
  <2> TAKE v \in DOMAIN ts
  <2>1. CASE v = e.tx
    BY <1>5, <2>1
  <2>2. CASE v # e.tx
    BY <1>5, <1>7, <2>2 DEF RowsInv
  <2> QED BY <2>1, <2>2
<1>11. Awaiting' <=> ts[e.tx].type # "Session"
  BY <1>1, <1>3, <1>4 DEF Awaiting
<1>12. lastTx' # 0 /\ Len(rows') # 0 /\ currentIndex' >= 0
  BY <1>1, <1>3, <1>6
<1>13. IF Awaiting' THEN currentIndex' \in 1..Len(rows') /\ Begins(e.tx)' = {currentIndex'}
       ELSE currentIndex' < Len(rows')
  BY <1>1, <1>5, <1>6, <1>11
<1>14. (Begins(lastTx))' = Begins(e.tx)'
  BY <1>1, RowsWillBe DEF Begins, T!RowsOf
<1> QED BY <1>1, <1>8, <1>9, <1>10, <1>12, <1>13, <1>14 DEF RowsInv

\* and the row of the session.
LEMMA BeginKeepsSession ==
  ASSUME TimelineInv, T!DrawBegin
  PROVE  SessionInv'
<1>0. PICK k, e, index : k = T!NextEvent /\ e = events[k] /\ index = T!EraIndex(e)
  OBVIOUS
<1> DEFINE fs == events'
<1>1. /\ events # <<>> /\ Drawable(e) /\ ~Awaiting
      /\ index \in 0..Len(rows) /\ OnRow(rows, index + 1, e, rows')
      /\ lastTx' = e.tx /\ ts' = ts /\ events' = T!RemoveAt(events, k)
  BY <1>0, BeginDrawn
<1>2. k \in 1..Len(events) /\ e \in EventSet /\ \A j \in 1..Len(events) : Sooner(k, j)
  BY <1>0, <1>1, NextTaken
<1>3. /\ e.what = "Begin" /\ e.start # 0 /\ e.end # 0 /\ e.tx \in DOMAIN ts /\ e.tx # 0
      /\ e.start \in Nat /\ e.end \in Nat
  BY <1>1, <1>2, EventParts, DrawnLog DEF Drawable, TimelineInv, TimelineTypes
<1>4. e.start = T!StartTime(e.tx) /\ e.end = T!EndTime(e.tx) /\ Begins(e.tx) = {}
  BY <1>0, <1>2, <1>3 DEF TimelineInv, EventsInv, OwnTimes
<1>5. /\ \A i \in 1..Len(fs) : /\ Was(k, i) \in 1..Len(events) /\ Was(k, i) # k
                               /\ fs[i] = events[Was(k, i)]
      /\ Len(fs) \in Nat /\ Len(events) \in Nat
  <2>1. Without(events, k, events')
    BY <1>0, <1>1, OneLess
  <2> QED BY <2>1, LenProperties DEF Without, TimelineInv, TimelineTypes
<1>6. /\ \A v : v # e.tx => Begins(v)' = Begins(v)
      /\ Begins(e.tx)' = {index + 1}
  <2>1. /\ \A v, what : v # e.tx \/ what # e.what => RowsWith(rows', v, what) = RowsWith(rows, v, what)
        /\ RowsWith(rows', e.tx, e.what) = RowsWith(rows, e.tx, e.what) \cup {index + 1}
    BY <1>1, OnRowParts
  <2>2. RowsWith(rows, e.tx, "Begin") = {}
    BY <1>4, RowsAre
  <2> QED BY <1>3, <2>1, <2>2, RowsAre, RowsWillBe
<1>7. PICK root \in DOMAIN ts :
        /\ \A i \in 1..Len(events) :
             /\ events[i].tx \in Reachable(ts, root)
             /\ events[i].what = "Begin" /\ ts[events[i].tx].type = "Session" => i = 1 /\ events[i].tx = root
        /\ \A v \in DOMAIN ts : Begins(v) # {} /\ ts[v].type = "Session" => v = root
        /\ OpenSession(root) =>
             /\ \A i \in 1..Len(events) : Drawable(events[i]) /\ events[i].tx = root => lastTx = 0
             /\ Begins(root) # {} =>
                  /\ Begins(root) = {1} /\ Len(rows[1]) = 1 /\ rows[1][1].what = "Begin"
                  /\ rows[1][1].end = T!EndTime(root) /\ lastTx # 0
  BY DEF TimelineInv, SessionInv
<1>8. e.tx \in Reachable(ts, root) /\ (ts[e.tx].type = "Session" => k = 1 /\ e.tx = root)
  BY <1>0, <1>2, <1>3, <1>7
<1> HIDE DEF fs
<1>9. ASSUME NEW i \in 1..Len(fs)
      PROVE  /\ fs[i].tx \in Reachable(ts, root)
             /\ fs[i].what = "Begin" /\ ts[fs[i].tx].type = "Session" => i = 1 /\ fs[i].tx = root
  <2> DEFINE p == Was(k, i)
  <2>1. p \in 1..Len(events) /\ p # k /\ fs[i] = events[p]
    BY <1>5
  <2>2. p = 1 => i = 1
    BY <1>2, <1>5, <2>1 DEF Was
  <2> HIDE DEF p
  <2> QED BY <1>7, <2>1, <2>2
<1>10. \A v \in DOMAIN ts : Begins(v)' # {} /\ ts[v].type = "Session" => v = root
  <2> TAKE v \in DOMAIN ts
  <2>1. CASE v = e.tx
    BY <1>8, <2>1
  <2>2. CASE v # e.tx
    BY <1>6, <1>7, <2>2
  <2> QED BY <2>1, <2>2
<1>11. ASSUME OpenSession(root), NEW i \in 1..Len(fs), Drawable(fs[i]), fs[i].tx = root
       PROVE  FALSE
  <2> DEFINE p == Was(k, i)
  <2>1. p \in 1..Len(events) /\ p # k /\ fs[i] = events[p]
    BY <1>5
  <2> HIDE DEF p
  <2>2. p = 1 /\ events[p].start = T!StartTime(root)
    BY <1>7, <1>11, <2>1 DEF OpenSession, Drawable, TimelineInv, EventsInv, OwnTimes
  <2>3. e.start \in {0} \cup (T!StartTime(root)..T!EndTime(root))
    BY <1>4, <1>8, <1>11 DEF OpenSession
  <2>4. T!StartTime(root) \in Nat
    BY TransactionTimes DEF TimelineInv, TimelineTypes
  <2>5. e.start < events[p].start \/ (e.start = events[p].start /\ k <= p)
    BY <1>0, <1>2, <2>1 DEF Sooner
  <2>6. k \in 1..Len(events) /\ k # 1
    BY <1>2, <2>1, <2>2
  <2>7. ~(k <= 1)
    BY <1>5, <2>6
  <2>8. T!EndTime(root) \in Nat
    BY TransactionTimes DEF TimelineInv, TimelineTypes
  <2> QED BY <1>3, <2>2, <2>3, <2>4, <2>5, <2>7, <2>8
<1>12. ASSUME OpenSession(root), Begins(root)' # {}
       PROVE  /\ Begins(root)' = {1} /\ Len(rows'[1]) = 1 /\ rows'[1][1].what = "Begin"
              /\ rows'[1][1].end = T!EndTime(root)
  <2>1. CASE e.tx = root
    <3>1. lastTx = 0
      BY <1>0, <1>1, <1>2, <1>7, <1>12, <2>1
    <3>2. rows = <<>> /\ currentIndex = -1
      BY <3>1 DEF TimelineInv, RowsInv
    <3>3. index = 0
      <4>1. ~T!OtherRequest(e)
        BY <3>1 DEF T!OtherRequest
      <4>2. Len(rows) = 0
        BY <3>2, EmptySeq
      <4>3. T!NextIndex(e) = 0
        BY <3>2, <4>2 DEF T!NextIndex, T!HasRow
      <4> QED BY <1>0, <4>1, <4>3 DEF T!EraIndex
    <3>4. rows'[1] = <<e>>
      BY <1>1, <3>2 DEF OnRow
    <3>5. Len(rows'[1]) = 1 /\ rows'[1][1] = e
      BY <3>4
    <3>6. index + 1 = 1
      BY <3>3
    <3> QED BY <1>3, <1>4, <1>6, <2>1, <3>5, <3>6
  <2>2. CASE e.tx # root
    <3>1. /\ Begins(root) = {1} /\ Len(rows[1]) = 1 /\ rows[1][1].what = "Begin"
          /\ rows[1][1].end = T!EndTime(root) /\ lastTx # 0
      BY <1>6, <1>7, <1>12, <2>2
    <3>2. e.start \in {0} \cup (T!StartTime(root)..T!EndTime(root))
      BY <1>4, <1>8, <1>12 DEF OpenSession
    <3>3. ~(e.start > T!EndTime(root))
      <4>1. T!EndTime(root) \in Nat /\ T!StartTime(root) \in Nat
        BY TransactionTimes DEF TimelineInv, TimelineTypes
      <4> QED BY <1>3, <3>2, <4>1
    <3>4. /\ Len(rows) # 0 /\ currentIndex >= 0 /\ currentIndex \in Int /\ Len(rows) \in Nat
          /\ rows \in Seq(Seq(EventSet))
      BY <3>1, LenProperties DEF TimelineInv, RowsInv, TimelineTypes
    <3>5. index # 0
      <4>1. CASE T!OtherRequest(e)
        <5>1. T!RootParent(ts, e.tx, TRUE) = root
          BY <1>8, <1>12, SameInTimeline DEF OpenSession
        <5>2. ts[root].type = "Session"
          BY <1>12 DEF OpenSession
        <5>3. T!EraIndex(e) = 1
          BY <4>1, <5>1, <5>2 DEF T!EraIndex
        <5> QED BY <1>0, <5>3
      <4>2. CASE ~T!OtherRequest(e)
        <5>1. index = T!NextIndex(e)
          BY <1>0, <4>2 DEF T!EraIndex
        <5>2. CASE currentIndex = 0
          <6>1. T!RowEnd(0) = T!EndTime(root)
            <7>1. 1 \in DOMAIN rows /\ rows[1] \in Seq(EventSet)
              BY <3>4, LenProperties, ElementOfSeq
            <7>2. DOMAIN rows[1] = {1}
              <8>1. DOMAIN rows[1] = 1..1
                BY <3>1, <7>1, LenProperties
              <8> QED BY <8>1
            <7>3. {rows[0 + 1][i].end : i \in DOMAIN rows[0 + 1]} = {T!EndTime(root)}
              BY <3>1, <7>2
            <7>4. \A x \in Nat : T!Max({x}) = x
              BY DEF T!Max
            <7>5. T!EndTime(root) \in Nat
              BY TransactionTimes DEF TimelineInv, TimelineTypes
            <7> QED BY <7>3, <7>4, <7>5 DEF T!RowEnd
          <6>2. T!NextIndex(e) = currentIndex + 1
            BY <3>3, <5>2, <6>1 DEF T!NextIndex
          <6> QED BY <5>1, <5>2, <6>2
        <5>3. CASE currentIndex # 0
          BY <3>4, <5>1, <5>3 DEF T!NextIndex
        <5> QED BY <5>2, <5>3
      <4> QED BY <4>1, <4>2
    <3>6. rows'[1] = rows[1]
      <4>1. index + 1 # 1 /\ 1 \in 1..Len(rows)
        BY <1>1, <3>4, <3>5
      <4> QED BY <1>1, <4>1 DEF OnRow
    <3> QED BY <1>6, <2>2, <3>1, <3>6
  <2> QED BY <2>1, <2>2
<1>13. /\ OpenSession(root)' <=> OpenSession(root)
       /\ Reachable(ts, root)' = Reachable(ts, root)
       /\ T!EndTime(root)' = T!EndTime(root)
  BY <1>1, SameSession, SameTimes
<1>14. (/\ \A i \in 1..Len(events) :
             /\ events[i].tx \in Reachable(ts, root)
             /\ events[i].what = "Begin" /\ ts[events[i].tx].type = "Session" => i = 1 /\ events[i].tx = root
        /\ \A v \in DOMAIN ts : Begins(v) # {} /\ ts[v].type = "Session" => v = root)'
  BY <1>1, <1>9, <1>10 DEF fs
<1>15. (OpenSession(root) =>
             /\ \A i \in 1..Len(events) : Drawable(events[i]) /\ events[i].tx = root => lastTx = 0
             /\ Begins(root) # {} =>
                  /\ Begins(root) = {1} /\ Len(rows[1]) = 1 /\ rows[1][1].what = "Begin"
                  /\ rows[1][1].end = T!EndTime(root) /\ lastTx # 0)'
  BY <1>1, <1>3, <1>11, <1>12, <1>13 DEF fs, Drawable
<1>16. root \in DOMAIN ts'
  BY <1>1
<1> QED BY <1>14, <1>15, <1>16 DEF SessionInv

\* What the k-th event, a timestamp, does when it is drawn on a row.
StampOn(k, e, row) ==
  /\ events # <<>> /\ e.what = "Timestamp" /\ e.tx \in DOMAIN ts
  /\ row \in 1..Len(rows) /\ Begins(e.tx) = {row} /\ OnRow(rows, row + 1, e, rows')
  /\ IF e.tx \in DOMAIN txRows THEN row = txRows[e.tx]
     ELSE Awaiting /\ e.tx = lastTx /\ row = currentIndex
  /\ txRows' = [v \in DOMAIN txRows \cup {e.tx} |-> IF v = e.tx THEN row ELSE txRows[v]]
  /\ events' = T!RemoveAt(events, k)
  /\ ts' = ts /\ currentIndex' = currentIndex /\ lastTx' = lastTx

\* A timestamp is drawn on the row below that of its transaction.
LEMMA StampDrawn ==
  ASSUME TimelineInv, T!DrawTimestamp, NEW k, k = T!NextEvent, NEW e, e = events[k]
  PROVE  \E row : StampOn(k, e, row)
<1> DEFINE row == IF e.tx \in DOMAIN txRows THEN txRows[e.tx] ELSE currentIndex
<1>1. /\ events # <<>> /\ e.what = "Timestamp" /\ T!AddEvent(row, e)
      /\ txRows' = [v \in DOMAIN txRows \cup {e.tx} |-> IF v = e.tx THEN row ELSE txRows[v]]
      /\ events' = T!RemoveAt(events, k)
      /\ ts' = ts /\ currentIndex' = currentIndex /\ lastTx' = lastTx
  BY DEF T!DrawTimestamp
<1>2. e \in EventSet /\ (e.tx \in DOMAIN txRows \/ (Awaiting /\ e.tx = lastTx))
  BY <1>1, NextTaken
<1>3. IF e.tx \in DOMAIN txRows THEN row = txRows[e.tx]
      ELSE Awaiting /\ e.tx = lastTx /\ row = currentIndex
  BY <1>2
<1> HIDE DEF row
<1>4. row \in 1..Len(rows) /\ Begins(e.tx) = {row}
  BY <1>3 DEF TimelineInv, RowsInv
<1>5. rows \in Seq(Seq(EventSet)) /\ Len(rows) \in Nat
  BY LenProperties DEF TimelineInv, TimelineTypes
<1>6. OnRow(rows, row + 1, e, rows')
  <2>1. rows' = IF row \in 0..(Len(rows) - 1) THEN [rows EXCEPT ![row + 1] = Append(@, e)]
                ELSE Append(rows, <<e>>)
    BY <1>1 DEF T!AddEvent, T!HasRow
  <2>2. row \in 0..Len(rows)
    BY <1>4, <1>5
  <2> QED BY <1>2, <1>5, <2>1, <2>2, EventAdded
<1>7. e.tx \in DOMAIN ts
  BY <1>2, EventParts
<1>8. StampOn(k, e, row)
  BY <1>1, <1>3, <1>4, <1>6, <1>7 DEF StampOn
<1> QED BY <1>8

\* What the two steps that draw no transaction have in common: the events.
LEMMA OthersKeepEvents ==
  ASSUME TimelineInv, events # <<>>, NEW k, k = T!NextEvent, ~Drawable(events[k]),
         events' = T!RemoveAt(events, k), ts' = ts, lastTx' = lastTx, ~Awaiting',
         DOMAIN txRows \subseteq DOMAIN txRows', Awaiting => lastTx \in DOMAIN txRows',
         \A v \in DOMAIN txRows' : v \in DOMAIN txRows \/ (Awaiting /\ v = lastTx),
         \A v : Begins(v)' = Begins(v)
  PROVE  EventsInv'
<1> DEFINE fs == events'
<1>1. /\ Without(events, k, fs) /\ fs \in Seq(EventSet)
      /\ OneBegin(events)' /\ StampNext(events)' /\ OwnTimes(events)'
  BY OneLess
<1>2. k \in 1..Len(events)
  BY NextTaken
<1>3. /\ \A i \in 1..Len(fs) : /\ Was(k, i) \in 1..Len(events) /\ Was(k, i) # k
                               /\ fs[i] = events[Was(k, i)]
      /\ \A i \in 1..Len(events) : i # k => /\ Is(k, i) \in 1..Len(fs) /\ fs[Is(k, i)] = events[i]
                                            /\ Was(k, Is(k, i)) = i
      /\ \A i \in 1..Len(fs) : Is(k, Was(k, i)) = i
  BY <1>1 DEF Without
<1>4. EventsInv /\ events \in Seq(EventSet) /\ Len(events) \in Nat /\ Len(fs) \in Nat
  BY <1>1, LenProperties DEF TimelineInv, TimelineTypes
<1> HIDE DEF fs
<1>5. ASSUME NEW i \in 1..Len(fs), fs[i].what = "Begin"
      PROVE  (LET v == events[i].tx IN Begins(v) = {} /\ v \notin DOMAIN txRows /\ v # lastTx)'
  <2> DEFINE p == Was(k, i)
  <2>1. p \in 1..Len(events) /\ fs[i] = events[p]
    BY <1>3
  <2> HIDE DEF p
  <2>2. PICK v : v = fs[i].tx
    OBVIOUS
  <2>3. Begins(v) = {} /\ v \notin DOMAIN txRows /\ v # lastTx
    BY <1>4, <1>5, <2>1, <2>2 DEF EventsInv
  <2>4. Begins(v)' = {} /\ v \notin DOMAIN txRows' /\ v # lastTx'
    BY <2>3
  <2> QED BY <2>2, <2>4 DEF fs
<1>6. ASSUME NEW j \in 1..Len(fs), fs[j].what = "Timestamp"
      PROVE  (LET v == events[j].tx
              IN  HasBegun(events, j) \/ v \in DOMAIN txRows \/ (Awaiting /\ v = lastTx))'
  <2> DEFINE p == Was(k, j)
             v == fs[j].tx
  <2>1. p \in 1..Len(events) /\ p # k /\ fs[j] = events[p] /\ Is(k, p) = j
    BY <1>3
  <2>2. HasBegun(events, p) \/ v \in DOMAIN txRows \/ (Awaiting /\ v = lastTx)
    BY <1>4, <1>6, <2>1 DEF EventsInv
  <2>3. CASE HasBegun(events, p)
    <3> HIDE DEF p
    <3>1. PICK i \in 1..Len(events) : /\ i < p /\ Drawable(events[i])
                                      /\ events[i].tx = events[p].tx /\ events[i].start <= events[p].start
      BY <2>3 DEF HasBegun
    <3> DEFINE q == Is(k, i)
    <3>2. i # k
      BY <3>1
    <3>3. q \in 1..Len(fs) /\ fs[q] = events[i] /\ Was(k, q) = i
      BY <1>3, <3>2
    <3>4. q < j
      <4>1. i \in Int /\ p \in Int /\ k \in Int
        BY <1>2, <1>4, <2>1
      <4> QED BY <2>1, <3>1, <3>2, <4>1 DEF Is
    <3> HIDE DEF q
    <3>5. Drawable(fs[q]) /\ fs[q].tx = fs[j].tx /\ fs[q].start <= fs[j].start
      BY <2>1, <3>1, <3>3
    <3>6. HasBegun(events, j)'
      BY <3>3, <3>4, <3>5 DEF HasBegun, Drawable, fs
    <3> QED BY <3>6
  <2>4. CASE v \in DOMAIN txRows \/ (Awaiting /\ v = lastTx)
    <3>1. v \in DOMAIN txRows'
      BY <2>4
    <3> QED BY <3>1 DEF fs
  <2> QED BY <2>2, <2>3, <2>4
<1> QED BY <1>1, <1>5, <1>6 DEF EventsInv, fs

\* And the session: its row and what is left of it.
LEMMA OthersKeepSession ==
  ASSUME TimelineInv, events # <<>>, NEW k, k = T!NextEvent,
         events' = T!RemoveAt(events, k), ts' = ts, lastTx' = lastTx,
         \A v : Begins(v)' = Begins(v),
         rows # <<>> => rows'[1] = rows[1]
  PROVE  SessionInv'
<1> DEFINE fs == events'
<1>1. /\ \A i \in 1..Len(fs) : /\ Was(k, i) \in 1..Len(events) /\ Was(k, i) # k
                               /\ fs[i] = events[Was(k, i)]
      /\ Len(fs) \in Nat /\ Len(events) \in Nat
  <2>1. Without(events, k, events')
    BY OneLess
  <2> QED BY <2>1, LenProperties DEF Without, TimelineInv, TimelineTypes
<1>2. k \in 1..Len(events)
  BY NextTaken
<1>3. PICK root \in DOMAIN ts :
        /\ \A i \in 1..Len(events) :
             /\ events[i].tx \in Reachable(ts, root)
             /\ events[i].what = "Begin" /\ ts[events[i].tx].type = "Session" => i = 1 /\ events[i].tx = root
        /\ \A v \in DOMAIN ts : Begins(v) # {} /\ ts[v].type = "Session" => v = root
        /\ OpenSession(root) =>
             /\ \A i \in 1..Len(events) : Drawable(events[i]) /\ events[i].tx = root => lastTx = 0
             /\ Begins(root) # {} =>
                  /\ Begins(root) = {1} /\ Len(rows[1]) = 1 /\ rows[1][1].what = "Begin"
                  /\ rows[1][1].end = T!EndTime(root) /\ lastTx # 0
  BY DEF TimelineInv, SessionInv
<1> HIDE DEF fs
<1>4. ASSUME NEW i \in 1..Len(fs)
      PROVE  /\ fs[i].tx \in Reachable(ts, root)
             /\ fs[i].what = "Begin" /\ ts[fs[i].tx].type = "Session" => i = 1 /\ fs[i].tx = root
             /\ OpenSession(root) /\ Drawable(fs[i]) /\ fs[i].tx = root => lastTx = 0
  <2> DEFINE p == Was(k, i)
  <2>1. p \in 1..Len(events) /\ p # k /\ fs[i] = events[p]
    BY <1>1
  <2>2. p = 1 => i = 1
    BY <1>1, <1>2, <2>1 DEF Was
  <2> HIDE DEF p
  <2> QED BY <1>3, <2>1, <2>2
<1>5. Begins(root) # {} => rows'[1] = rows[1]
  <2>1. rows = <<>> => Begins(root) = {}
    BY RowsAre DEF RowsWith
  <2> QED BY <2>1
<1>6. /\ OpenSession(root)' <=> OpenSession(root)
      /\ Reachable(ts, root)' = Reachable(ts, root)
      /\ T!EndTime(root)' = T!EndTime(root)
  BY SameSession, SameTimes
<1>7. (/\ \A i \in 1..Len(events) :
             /\ events[i].tx \in Reachable(ts, root)
             /\ events[i].what = "Begin" /\ ts[events[i].tx].type = "Session" => i = 1 /\ events[i].tx = root
       /\ \A v \in DOMAIN ts : Begins(v) # {} /\ ts[v].type = "Session" => v = root)'
  BY <1>3, <1>4 DEF fs
<1>8. (OpenSession(root) =>
             /\ \A i \in 1..Len(events) : Drawable(events[i]) /\ events[i].tx = root => lastTx = 0
             /\ Begins(root) # {} =>
                  /\ Begins(root) = {1} /\ Len(rows[1]) = 1 /\ rows[1][1].what = "Begin"
                  /\ rows[1][1].end = T!EndTime(root) /\ lastTx # 0)'
  BY <1>3, <1>4, <1>5, <1>6 DEF fs, Drawable
<1>9. root \in DOMAIN ts'
  OBVIOUS
<1> QED BY <1>7, <1>8, <1>9 DEF SessionInv

\* The invariant is kept when a transaction without times is skipped,
LEMMA SkipKeeps ==
  ASSUME TimelineInv, T!SkipBegin
  PROVE  TimelineInv'
<1>0. PICK k : k = T!NextEvent
  OBVIOUS
<1>1. /\ events # <<>> /\ events[k].what = "Begin" /\ ~Drawable(events[k])
      /\ events' = T!RemoveAt(events, k)
      /\ ts' = ts /\ rows' = rows /\ currentIndex' = currentIndex
      /\ txRows' = txRows /\ lastTx' = lastTx
  BY <1>0 DEF T!SkipBegin, Drawable
<1>2. ~Awaiting
  BY <1>0, <1>1, NextTaken
<1>3. (Awaiting' <=> Awaiting) /\ \A v : Begins(v)' = Begins(v)
  BY <1>1, RowsAre, RowsWillBe DEF Awaiting
<1>4. EventsInv'
  BY <1>0, <1>1, <1>2, <1>3, OthersKeepEvents
<1>5. SessionInv'
  BY <1>0, <1>1, <1>3, OthersKeepSession
<1>6. RowsInv'
  <2>1. RowsInv
    BY DEF TimelineInv
  <2>2. \A v, what : T!RowsOf(v, what)' = T!RowsOf(v, what)
    BY <1>1, RowsAre, RowsWillBe
  <2> QED BY <1>1, <1>2, <1>3, <2>1, <2>2 DEF RowsInv
<1>7. TimelineTypes'
  <2>1. events' \in Seq(EventSet) /\ EventSet' = EventSet
    BY <1>0, <1>1, OneLess, SameTimes
  <2> QED BY <1>1, <2>1 DEF TimelineTypes, TimelineInv
<1> QED BY <1>4, <1>5, <1>6, <1>7 DEF TimelineInv

\* and when a timestamp is drawn.
LEMMA StampKeeps ==
  ASSUME TimelineInv, T!DrawTimestamp
  PROVE  TimelineInv'
<1>0. PICK k, e : k = T!NextEvent /\ e = events[k]
  OBVIOUS
<1>a. PICK row : StampOn(k, e, row)
  BY <1>0, StampDrawn
<1>1. /\ events # <<>> /\ e.what = "Timestamp" /\ e.tx \in DOMAIN ts
      /\ row \in 1..Len(rows) /\ Begins(e.tx) = {row} /\ OnRow(rows, row + 1, e, rows')
      /\ IF e.tx \in DOMAIN txRows THEN row = txRows[e.tx]
         ELSE Awaiting /\ e.tx = lastTx /\ row = currentIndex
      /\ txRows' = [v \in DOMAIN txRows \cup {e.tx} |-> IF v = e.tx THEN row ELSE txRows[v]]
      /\ events' = T!RemoveAt(events, k)
      /\ ts' = ts /\ currentIndex' = currentIndex /\ lastTx' = lastTx
  BY <1>a DEF StampOn
<1>2. Awaiting => e.tx = lastTx
  BY <1>0, <1>1, NextTaken
<1>3. DOMAIN txRows' = DOMAIN txRows \cup {e.tx} /\ txRows'[e.tx] = row
      /\ \A v \in DOMAIN txRows : txRows'[v] = txRows[v]
  <2>1. \A v \in DOMAIN txRows : v = e.tx => row = txRows[v]
    BY <1>1
  <2> QED BY <1>1, <2>1
<1>4. ~Awaiting'
  BY <1>1, <1>2, <1>3 DEF Awaiting
<1>5. /\ \A v : Begins(v)' = Begins(v)
      /\ \A v : v # e.tx => T!RowsOf(v, "Timestamp")' = T!RowsOf(v, "Timestamp")
      /\ T!RowsOf(e.tx, "Timestamp")' = T!RowsOf(e.tx, "Timestamp") \cup {row + 1}
  <2>1. /\ \A v, what : v # e.tx \/ what # e.what => RowsWith(rows', v, what) = RowsWith(rows, v, what)
        /\ RowsWith(rows', e.tx, e.what) = RowsWith(rows, e.tx, e.what) \cup {row + 1}
    BY <1>1, OnRowParts
  <2> QED BY <1>1, <2>1, RowsAre, RowsWillBe
<1>6. EventsInv'
  <2>1. Awaiting => lastTx \in DOMAIN txRows'
    BY <1>2, <1>3
  <2>2. \A v \in DOMAIN txRows' : v \in DOMAIN txRows \/ (Awaiting /\ v = lastTx)
    BY <1>1, <1>3
  <2>3. ~Drawable(events[k])
    BY <1>0, <1>1 DEF Drawable
  <2>4. DOMAIN txRows \subseteq DOMAIN txRows'
    BY <1>3
  <2> QED BY <1>0, <1>1, <1>4, <1>5, <2>1, <2>2, <2>3, <2>4, OthersKeepEvents
<1>7. /\ Len(rows) \in Nat /\ Len(rows') \in Nat /\ Len(rows) <= Len(rows')
      /\ row + 1 \in 1..Len(rows') /\ row \in Nat \ {0}
  BY <1>1, LenProperties DEF OnRow, TimelineInv, TimelineTypes
<1>8. SessionInv'
  <2>1. rows # <<>> => rows'[1] = rows[1]
    <3>1. 1 \in 1..Len(rows) /\ row + 1 # 1
      BY <1>1, <1>7
    <3> QED BY <1>1, <3>1 DEF OnRow
  <2> QED BY <1>0, <1>1, <1>5, <2>1, OthersKeepSession
<1>9. RowsInv'
  <2>1. RowsInv /\ currentIndex \in Int
    BY DEF TimelineInv, TimelineTypes
  <2>2. \A v \in DOMAIN txRows' : txRows'[v] \in 1..Len(rows') /\ Begins(v)' = {txRows'[v]}
    <3> TAKE v \in DOMAIN txRows'
    <3>1. CASE v = e.tx
      <4>1. row \in 1..Len(rows')
        BY <1>1, <1>7
      <4> QED BY <1>1, <1>3, <1>5, <3>1, <4>1
    <3>2. CASE v \in DOMAIN txRows
      <4>1. txRows[v] \in 1..Len(rows) /\ Begins(v) = {txRows[v]}
        BY <2>1, <3>2 DEF RowsInv
      <4>2. txRows[v] \in 1..Len(rows')
        BY <1>7, <4>1
      <4> QED BY <1>3, <1>5, <3>2, <4>1, <4>2
    <3> QED BY <1>3, <3>1, <3>2
  <2>3. \A v \in DOMAIN ts : \A r \in T!RowsOf(v, "Timestamp")' :
          v \in DOMAIN txRows' /\ r = txRows'[v] + 1
    <3> TAKE v \in DOMAIN ts
    <3> TAKE r \in T!RowsOf(v, "Timestamp")'
    <3>1. CASE r \in T!RowsOf(v, "Timestamp")
      BY <1>3, <2>1, <3>1 DEF RowsInv
    <3>2. CASE v = e.tx /\ r = row + 1
      BY <1>3, <3>2
    <3> QED BY <1>5, <3>1, <3>2
  <2>4. lastTx # 0 /\ currentIndex >= 0
    <3>1. Len(rows) # 0
      BY <1>1, <1>7
    <3>2. rows # <<>>
      BY <3>1, EmptySeq
    <3> QED BY <2>1, <3>2 DEF RowsInv
  <2>5. currentIndex < Len(rows')
    <3>1. CASE Awaiting
      <4>1. currentIndex = row
        BY <1>1, <1>2, <3>1 DEF Awaiting
      <4> QED BY <1>7, <4>1
    <3>2. CASE ~Awaiting
      BY <1>7, <2>1, <3>2 DEF RowsInv
    <3> QED BY <3>1, <3>2
  <2>6. Len(rows') # 0
    BY <1>7
  <2>7. \A v \in DOMAIN ts : \A q, r \in Begins(v)' : q = r
    BY <1>5, <2>1 DEF RowsInv
  <2> QED BY <1>1, <1>4, <2>2, <2>3, <2>4, <2>5, <2>6, <2>7 DEF RowsInv
<1>10. TimelineTypes'
  <2>1. events' \in Seq(EventSet) /\ EventSet' = EventSet
    BY <1>0, <1>1, OneLess, SameTimes
  <2>2. rows' \in Seq(Seq(EventSet))
    BY <1>1 DEF OnRow
  <2> QED BY <1>1, <2>1, <2>2 DEF TimelineTypes, TimelineInv
<1> QED BY <1>6, <1>8, <1>9, <1>10 DEF TimelineInv

\* The invariant of the page, of which only the timeline matters here.
Drawing == view = "timeline" => TimelineInv

\* It holds at first, since what is collected is as it should be,
LEMMA DrawingInit ==
  ASSUME Init
  PROVE  Drawing
<1> SUFFICES ASSUME view = "timeline"
             PROVE  TimelineInv
  BY DEF Drawing
<1>1. T!Init
  BY DEF Init
<1>2. /\ ts \in DrawnSets /\ rows = <<>> /\ currentIndex = -1
      /\ txRows = [v \in {} |-> 0] /\ lastTx = 0
  BY <1>1 DEF T!Init
<1>3. PICK root \in DOMAIN ts : events = T!Collected(root)
  BY <1>1 DEF T!Init
<1>4. WellCollected(events, root)
  BY <1>2, <1>3, CollectedWell
<1>5. DOMAIN txRows = {} /\ ~Awaiting
  BY <1>2 DEF Awaiting
<1>6. /\ \A v : Begins(v) = {}
      /\ \A v, what : T!RowsOf(v, what) = {}
  BY <1>2, RowsAre DEF RowsWith
<1>7. TimelineTypes
  BY <1>2, <1>4, EmptySeq DEF TimelineTypes, WellCollected
<1>8. EventsInv
  <2>1. \A i \in 1..Len(events) : events[i].what = "Begin" => events[i].tx # 0
    <3> TAKE i \in 1..Len(events)
    <3>1. events[i] \in EventSet
      BY <1>7, ElementOfSeq DEF TimelineTypes
    <3>2. events[i].tx \in DOMAIN ts
      BY <3>1, EventParts
    <3> QED BY <1>2, <3>2, DrawnLog
  <2> QED BY <1>2, <1>4, <1>5, <1>6, <2>1 DEF WellCollected, EventsInv
<1>9. RowsInv
  <2>1. Len(rows) = 0
    BY <1>2, EmptySeq
  <2> QED BY <1>2, <1>5, <1>6, <2>1 DEF RowsInv
<1>10. SessionInv
  <2>1. \A i \in 1..Len(events) :
          /\ events[i].tx \in Reachable(ts, root)
          /\ events[i].what = "Begin" /\ ts[events[i].tx].type = "Session" => i = 1 /\ events[i].tx = root
    <3> TAKE i \in 1..Len(events)
    <3>1. Len(events) > 0
      BY <1>7, LenProperties DEF TimelineTypes
    <3>2. events[1].tx = root /\ events[i].tx \in Reachable(ts, root)
      BY <1>4, <3>1 DEF WellCollected
    <3>3. i # 1 => events[i].what = "Timestamp" \/ ts[events[i].tx].type # "Session"
      BY <1>4 DEF WellCollected
    <3> QED BY <3>2, <3>3
  <2> QED BY <1>2, <1>6, <2>1 DEF SessionInv
<1> QED BY <1>7, <1>8, <1>9, <1>10 DEF TimelineInv

\* and each step of the page keeps it.
LEMMA DrawingNext ==
  ASSUME Drawing, [Next]_vars
  PROVE  Drawing'
<1> SUFFICES ASSUME view' = "timeline"
             PROVE  TimelineInv'
  BY DEF Drawing
<1>1. CASE RenderTimeline
  <2>1. TimelineInv /\ T!Next
    BY <1>1 DEF RenderTimeline, Drawing
  <2>2. CASE T!SkipBegin
    BY <2>1, <2>2, SkipKeeps
  <2>3. CASE T!DrawBegin
    BY <2>1, <2>3, BeginKeepsTypes, BeginKeepsEvents, BeginKeepsRows, BeginKeepsSession DEF TimelineInv
  <2>4. CASE T!DrawTimestamp
    BY <2>1, <2>4, StampKeeps
  <2> QED BY <2>1, <2>2, <2>3, <2>4 DEF T!Next
<1>2. CASE RenderGroups \/ RenderLatency \/ ReqBuild
  BY <1>2 DEF RenderGroups, RenderLatency, ReqBuild
<1>3. CASE UNCHANGED vars
  <2>1. TimelineInv
    BY <1>3 DEF vars, Drawing
  <2>2. /\ ts' = ts /\ events' = events /\ rows' = rows /\ currentIndex' = currentIndex
        /\ txRows' = txRows /\ lastTx' = lastTx
    BY <1>3 DEF vars, drawVars
  <2>3. /\ \A v, what : T!RowsOf(v, what)' = T!RowsOf(v, what)
        /\ \A v : Begins(v)' = Begins(v)
        /\ Awaiting' <=> Awaiting
    BY <2>2, RowsAre, RowsWillBe DEF Awaiting
  <2>4. TimelineTypes'
    BY <2>1, <2>2, SameTimes DEF TimelineInv, TimelineTypes
  <2>5. RowsInv'
    <3>1. RowsInv
      BY <2>1 DEF TimelineInv
    <3> QED BY <2>2, <2>3, <3>1 DEF RowsInv
  <2>6. EventsInv'
    <3>1. EventsInv
      BY <2>1 DEF TimelineInv
    <3>2. OneBegin(events)' /\ StampNext(events)'
      BY <2>2, <3>1 DEF EventsInv, OneBegin, StampNext, Drawable
    <3>3. OwnTimes(events)'
      BY <2>2, <3>1, SameTimes DEF EventsInv, OwnTimes
    <3>4. \A i, j \in 1..Len(events) : /\ HasBegun(events, j)' <=> HasBegun(events, j)
                                       /\ Sooner(i, j)' <=> Sooner(i, j)
      BY <2>2 DEF HasBegun, Sooner, Drawable
    <3> QED BY <2>2, <2>3, <3>1, <3>2, <3>3, <3>4 DEF EventsInv
  <2>7. SessionInv'
    <3>1. SessionInv
      BY <2>1 DEF TimelineInv
    <3>2. /\ \A s : OpenSession(s)' <=> OpenSession(s)
          /\ \A v : T!EndTime(v)' = T!EndTime(v)
      BY <2>2, SameSession, SameTimes
    <3> QED BY <2>2, <2>3, <3>1, <3>2 DEF SessionInv, Drawable
  <2> QED BY <2>4, <2>5, <2>6, <2>7 DEF TimelineInv
<1> QED BY <1>1, <1>2, <1>3 DEF Next

\* For every log that varnishd writes, however its transactions overlap: no
\* transaction is drawn twice and its timestamps are on the row below its own
\* (Timeline; timeline.go 73-110).
THEOREM PagesTimestampsBelowTransaction == Spec => []TimestampsBelowTransaction
<1>1. ASSUME TimelineInv
      PROVE  T!TimestampsBelowTransaction
  <2> SUFFICES ASSUME NEW v \in DOMAIN ts
               PROVE  /\ T!Cardinality(T!RowsOf(v, "Begin")) <= 1
                      /\ T!RowsOf(v, "Timestamp") \subseteq {r + 1 : r \in T!RowsOf(v, "Begin")}
    BY DEF T!TimestampsBelowTransaction
  <2> DEFINE S == T!RowsOf(v, "Begin")
  <2>1. \A q, r \in S : q = r
    BY <1>1 DEF TimelineInv, RowsInv, Begins
  <2>2. T!RowsOf(v, "Timestamp") \subseteq {r + 1 : r \in S}
    <3> SUFFICES ASSUME NEW r \in T!RowsOf(v, "Timestamp")
                 PROVE  r \in {q + 1 : q \in S}
      OBVIOUS
    <3>1. v \in DOMAIN txRows /\ r = txRows[v] + 1
      BY <1>1 DEF TimelineInv, RowsInv
    <3>2. txRows[v] \in S
      BY <1>1, <3>1 DEF TimelineInv, RowsInv, Begins
    <3> QED BY <3>1, <3>2
  <2>3. T!Cardinality(S) = Cardinality(S)
    BY DEF T!Cardinality, Cardinality
  <2>4. Cardinality(S) <= 1
    <3> HIDE DEF S
    <3>1. CASE S = {}
      BY <3>1, FS_EmptySet
    <3>2. CASE S # {}
      <4>1. PICK r : S = {r}
        BY <2>1, <3>2
      <4>2. Cardinality({r}) = 1
        BY FS_Singleton
      <4> QED BY <4>1, <4>2
    <3> QED BY <3>1, <3>2
  <2> QED BY <2>2, <2>3, <2>4
<1>2. Drawing => TimestampsBelowTransaction
  BY <1>1 DEF Drawing, TimestampsBelowTransaction
<1> QED BY <1>2, DrawingInit, DrawingNext, PTL DEF Spec

\* A session that is open while all below it starts shares its row with nothing,
\* wherever the index starts again (Timeline; timeline.go 65-71).
THEOREM PagesSessionRowIsItsOwn == Spec => []SessionRowIsItsOwn
<1>1. ASSUME TimelineInv
      PROVE  T!SessionRowIsItsOwn
  <2> SUFFICES ASSUME NEW v \in DOMAIN ts, OpenSession(v), NEW r \in Begins(v)
               PROVE  Len(rows[r]) = 1
    BY SameInTimeline DEF T!SessionRowIsItsOwn, OpenSession, Begins
  <2>1. PICK root \in DOMAIN ts :
          /\ \A w \in DOMAIN ts : Begins(w) # {} /\ ts[w].type = "Session" => w = root
          /\ OpenSession(root) /\ Begins(root) # {} => Begins(root) = {1} /\ Len(rows[1]) = 1
    BY <1>1 DEF TimelineInv, SessionInv
  <2>2. v = root
    BY <2>1 DEF OpenSession
  <2> QED BY <2>1, <2>2
<1>2. Drawing => SessionRowIsItsOwn
  BY <1>1 DEF Drawing, SessionRowIsItsOwn
<1> QED BY <1>2, DrawingInit, DrawingNext, PTL DEF Spec

=============================================================================
