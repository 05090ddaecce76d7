--------------------------- MODULE MCParserFraming ---------------------------
(* Small logs of several transactions: framing, links, errors, repeated VXIDs. *)
EXTENDS TransactionParser

MCSpellings == {"X"}
MCCanonical == [s \in MCSpellings |-> "X"]

MCLines ==
  {[tag |-> t] : t \in {"badstart", "short", "malformed", "other", "End"}}
  \cup {[tag |-> "start", vxid |-> v] : v \in {1, 2}}
  \cup {[tag |-> "Begin", parent |-> 1]}
  \cup {[tag |-> "Link", vxid |-> v] : v \in {1, 2}}

=============================================================================
