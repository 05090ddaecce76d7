-------------------------------- MODULE TxSet --------------------------------
(***************************************************************************)
(* The lookups of a TransactionSet (vsl/transaction.go) on the two         *)
(* relations between transactions: the parent each Begin record names and  *)
(* the children the Link records name.  A set is a function from the VXIDs *)
(* that are present to transactions; either relation may name a VXID that  *)
(* is not.                                                                 *)
(***************************************************************************)
EXTENDS Integers, Sequences, FiniteSets, SequencesExt

CONSTANTS
  VXIDs,     \* transaction identifiers; 0 is not one of them
  MaxDepth   \* the depth at which RootParent gives up, 100 in the code

ASSUME VXIDsAssumption == VXIDs \subseteq Nat \ {0} /\ IsFiniteSet(VXIDs)
ASSUME MaxDepthAssumption == MaxDepth \in Nat

TxTypes == {"Session", "Request", "BeReq"}

\* What the walks read of a transaction: its type, the parent of its Begin
\* record (0: none) and the VXIDs of its Link records in log order.
TxShape(maxLinks) ==
  [type : TxTypes, parent : VXIDs \cup {0}, links : BoundedSeq(VXIDs, maxLinks)]

\* Parse adds a child only once.
Children(ts, v) == Range(ts[v].links)

\* GetTX finds v.
Found(ts, v) == v \in DOMAIN ts

\* GetChildTX finds child under parent.
FoundChild(ts, parent, child) ==
  parent \in DOMAIN ts /\ child \in Children(ts, parent) /\ child \in DOMAIN ts

\* Transactions: VXIDs in ascending order.
Sorted(S) ==
  [i \in 1..Cardinality(S) |-> CHOOSE v \in S : Cardinality({w \in S : w < v}) = i - 1]

\* SortedChildren: those that are present.
SortedChildren(ts, v) == Sorted(Children(ts, v) \cap DOMAIN ts)

\* Mutant of RootParent: a parent that is not in the set makes the result nil.
RootParentNilIfMissing(ts, tx, includeSession) ==
  LET excluded(v) == ~includeSession /\ ts[v].type = "Session"
      rootParent[left \in 0..MaxDepth] == [v \in DOMAIN ts |->
        IF excluded(v) THEN 0
        ELSE IF ts[v].parent = 0 \/ left = 0 THEN v
        ELSE IF ~Found(ts, ts[v].parent) THEN 0
        ELSE IF excluded(ts[v].parent) THEN v
        ELSE rootParent[left - 1][ts[v].parent]]
  IN  rootParent[MaxDepth][tx]

\* Mutant of RootParent: one step up only.
RootParentOneUp(ts, tx, includeSession) ==
  LET excluded(v) == ~includeSession /\ ts[v].type = "Session"
  IN  IF excluded(tx) THEN 0
      ELSE IF ~Found(ts, ts[tx].parent) \/ excluded(ts[tx].parent) THEN tx
      ELSE ts[tx].parent

\* Mutant of RootParent: a session that is left out is found from its requests.
RootParentSession(ts, tx, includeSession) ==
  LET rootParent[left \in 0..MaxDepth] == [v \in DOMAIN ts |->
        IF ts[v].parent = 0 \/ left = 0 \/ ~Found(ts, ts[v].parent) THEN v
        ELSE rootParent[left - 1][ts[v].parent]]
  IN  IF ~includeSession /\ ts[tx].type = "Session" THEN 0 ELSE rootParent[MaxDepth][tx]

\* RootParent: up the Begin records, at most MaxDepth times, to a transaction
\* without a parent, without a parent in the set or, without sessions, below a
\* session; 0 stands for nil.
RootParent(ts, tx, includeSession) ==
  LET excluded(v) == ~includeSession /\ ts[v].type = "Session"
      rootParent[left \in 0..MaxDepth] == [v \in DOMAIN ts |->
        IF excluded(v) THEN 0
        ELSE IF \/ ts[v].parent = 0
                \/ left = 0
                \/ ~Found(ts, ts[v].parent)
                \/ excluded(ts[v].parent)
        THEN v
        ELSE rootParent[left - 1][ts[v].parent]]
  IN  rootParent[MaxDepth][tx]

\* The transactions some chain of Link records leads to from v, v included.
Reachable(ts, v) ==
  LET reach[n \in 0..Cardinality(DOMAIN ts)] ==
        IF n = 0 THEN {v}
        ELSE reach[n - 1]
             \cup ((UNION {Children(ts, w) : w \in reach[n - 1]}) \cap DOMAIN ts)
  IN  reach[Cardinality(DOMAIN ts)]

\* Begin and Link records agree, as varnishd writes them.
LinksMirrorParents(ts) ==
  \A v, w \in DOMAIN ts : w \in Children(ts, v) <=> ts[w].parent = v

\* A session is nobody's child ("Begin sess 0").
SessionsOnTop(ts) == \A v \in DOMAIN ts : ts[v].type = "Session" => ts[v].parent = 0

\* The links form no loop and no transaction is linked to twice.
Forest(ts) ==
  \A v \in DOMAIN ts :
    /\ \A w \in Children(ts, v) \cap DOMAIN ts : v \notin Reachable(ts, w)
    /\ \A i, j \in DOMAIN ts[v].links : ts[v].links[i] = ts[v].links[j] => i = j
    /\ \A w \in DOMAIN ts \ {v} : Children(ts, v) \cap Children(ts, w) \cap DOMAIN ts = {}

=============================================================================
