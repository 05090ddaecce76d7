------------------------------ MODULE ParsedLog ------------------------------
(***************************************************************************)
(* What Parse promises of a log, without its lines: whole transactions are *)
(* put into the set one after the other, a later one in place of an        *)
(* earlier one of its VXID, and the end without an error is never in the   *)
(* middle of one (vsl/parser.go).                                          *)
(***************************************************************************)
CONSTANTS
  VXIDs,    \* transaction identifiers
  Whole(_)  \* a transaction that is whole

VARIABLES
  set,      \* the transactions by VXID
  reading,  \* the VXID of the transaction that is being read, if there is one
  result    \* "none", "done" or "failed"

vars == <<set, reading, result>>

Init == set = [v \in {} |-> {}] /\ reading = {} /\ result = "none"

Start(v) ==
  /\ result = "none" /\ reading = {}
  /\ reading' = {v}
  /\ UNCHANGED <<set, result>>

\* Only the transaction that is read changes, and it is whole.
Store(v) ==
  /\ result = "none" /\ reading = {v}
  /\ reading' = {}
  /\ v \in DOMAIN set' /\ set'[v].vxid = v /\ Whole(set'[v])
  /\ set' = [w \in DOMAIN set \cup {v} |-> IF w = v THEN set'[v] ELSE set[w]]
  /\ UNCHANGED result

Succeed ==
  /\ result = "none" /\ reading = {}
  /\ result' = "done"
  /\ UNCHANGED <<set, reading>>

\* What was stored stays; the transaction that is read is dropped.
Fail ==
  /\ result = "none"
  /\ result' = "failed"
  /\ reading' = {}
  /\ UNCHANGED set

Next == (\E v \in VXIDs : Start(v) \/ Store(v)) \/ Succeed \/ Fail

Spec == Init /\ [][Next]_vars
=============================================================================
