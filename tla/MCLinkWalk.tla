----------------------------- MODULE MCLinkWalk ------------------------------
(* Every set of up to three transactions with up to two links each: loops,    *)
(* shared children, repeated links, missing children; for the summary, which  *)
(* does not end on a loop, only those whose links form a forest.              *)
EXTENDS LinkWalk

CONSTANT MaxLinks

Requests == {t \in TxShape(MaxLinks) : t.type = "Request" /\ t.parent = 0}

AllSets == UNION {[D -> Requests] : D \in (SUBSET VXIDs) \ {{}}}

AnySet(w) == AllSets

SetsFor(w) == IF w = "summary" THEN {s \in AllSets : Forest(s)} ELSE AllSets

=============================================================================
