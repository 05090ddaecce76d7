------------------------------- MODULE TxGroups ------------------------------
(***************************************************************************)
(* How the page divides a transaction set: UniqueRootParents finds the     *)
(* root of every transaction through the parents of the Begin records, and *)
(* GroupRelatedTransactions, or RawLogForTx for each root, collects what   *)
(* the Link records lead to from each root.  The two go by different       *)
(* records of the log.  (vsl/transaction.go 332-442)                       *)
(***************************************************************************)
EXTENDS TxSet

CONSTANT TransactionSets  \* the sets that are divided

VARIABLES
  ts,              \* the set
  includeSession,  \* the argument of UniqueRootParents
  pending,         \* the transactions the loop has not looked at, ascending
  uniqueParents,   \* the keys of the uniqueParents map
  groups           \* root -> its group, for the roots that are collected

vars == <<ts, includeSession, pending, uniqueParents, groups>>

Init ==
  /\ ts \in TransactionSets
  /\ includeSession \in BOOLEAN
  /\ pending = Sorted(DOMAIN ts)
  /\ uniqueParents = {}
  /\ groups = [r \in {} |-> {}]

\* Mutant of AddRootParent: nil is taken for a root.
AddNilRoot ==
  /\ pending # <<>>
  /\ pending' = Tail(pending)
  /\ uniqueParents' = uniqueParents \cup {RootParent(ts, Head(pending), includeSession)}
  /\ UNCHANGED <<ts, includeSession, groups>>

\* UniqueRootParents: one transaction of the loop.
AddRootParent ==
  /\ pending # <<>>
  /\ pending' = Tail(pending)
  /\ uniqueParents' =
       uniqueParents \cup ({RootParent(ts, Head(pending), includeSession)} \ {0})
  /\ UNCHANGED <<ts, includeSession, groups>>

\* GroupRelatedTransactions: the next root, in ascending order, and all the
\* transactions collectAllChildren collects from it (LinkWalk).
CollectGroup ==
  /\ pending = <<>>
  /\ \E r \in uniqueParents \ DOMAIN groups :
       /\ \A s \in uniqueParents \ DOMAIN groups : r <= s
       /\ groups' = [s \in DOMAIN groups \cup {r} |->
                       IF s = r THEN Reachable(ts, r) ELSE groups[s]]
  /\ UNCHANGED <<ts, includeSession, pending, uniqueParents>>

Next == AddRootParent \/ CollectGroup

Spec == Init /\ [][Next]_vars

-----------------------------------------------------------------------------
Divided == pending = <<>> /\ DOMAIN groups = uniqueParents

\* Type invariant.
TypeOK ==
  /\ includeSession \in BOOLEAN
  /\ Range(pending) \subseteq DOMAIN ts
  /\ uniqueParents \subseteq DOMAIN ts
  /\ DOMAIN groups \subseteq uniqueParents
  /\ \A r \in DOMAIN groups : groups[r] \subseteq DOMAIN ts

\* v is above w: parents of Begin records that are present lead from w to v.
ParentsIn(v) == {ts[v].parent} \cap DOMAIN ts

Ancestors(v) ==
  LET up[n \in 0..Cardinality(DOMAIN ts)] ==
        IF n = 0 THEN ParentsIn(v) ELSE up[n - 1] \cup UNION {ParentsIn(w) : w \in up[n - 1]}
  IN  up[Cardinality(DOMAIN ts)]

\* The Begin records of v lead to a top, within the depth RootParent goes.
HasTop(v) == v \notin Ancestors(v) /\ Cardinality(Ancestors(v)) <= MaxDepth
             /\ \A w \in Ancestors(v) : w \notin Ancestors(w)

\* Every transaction is shown: whatever loops the parents form and however deep
\* they go, each transaction that is not an excluded session is in the group of
\* some root.
EveryTransactionGrouped ==
  Divided /\ LinksMirrorParents(ts) =>
    \A v \in DOMAIN ts : includeSession \/ ts[v].type # "Session" =>
      \E r \in uniqueParents : v \in groups[r]

\* "txs grouped by their parent tx" (transaction.go, 358): when the parents form
\* no loop and are not deeper than RootParent goes, no transaction is in two
\* groups, also when sessions are left out or parents are missing from the log.
GroupsDisjoint ==
  Divided /\ LinksMirrorParents(ts) /\ SessionsOnTop(ts) /\ (\A v \in DOMAIN ts : HasTop(v)) =>
    \A r, s \in uniqueParents : r # s => groups[r] \cap groups[s] = {}

\* "the root transaction which has no parent" (transaction.go, 378): the root
\* found from a transaction that has a top has no parent in the set but, when
\* sessions are excluded, a session; and no root is itself an excluded session,
\* also where a loop or the depth limit ends the search.
RootsHaveNoParent ==
  \A r \in uniqueParents :
    /\ ~includeSession => ts[r].type # "Session"
    /\ (\E v \in DOMAIN ts : HasTop(v) /\ RootParent(ts, v, includeSession) = r) =>
         \A p \in ParentsIn(r) : ~includeSession /\ ts[p].type = "Session"

=============================================================================
