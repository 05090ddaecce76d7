------------------------------ MODULE LogStore ------------------------------
(***************************************************************************)
(* What the history promises of the logs it keeps, without its database    *)
(* transactions: a log is saved once, a name can be changed, an entry can  *)
(* be deleted.  A rename that has read the entry before another operation  *)
(* removed it may bring that entry back, under the new name; nothing else  *)
(* can (assets/static/history.js).                                         *)
(***************************************************************************)
CONSTANTS
  Hashes,      \* the digests of the logs
  NewNames,    \* the names a user gives
  ParsedName,  \* the name of a log that is saved
  Times,       \* when an entry may be created
  NoEntry

VARIABLES
  store,  \* the entry of each log, or NoEntry
  gone    \* the creation times of the entries of each log that were removed

vars == <<store, gone>>

Init == store = [h \in Hashes |-> NoEntry] /\ gone = [h \in Hashes |-> {}]

\* A log that is not there is saved.
Save(h, time) ==
  /\ store[h] = NoEntry
  /\ store' = [store EXCEPT ![h] = [name |-> ParsedName, created |-> time]]
  /\ UNCHANGED gone

\* The user's name takes the place of the name, and of nothing else.
Rename(h, name) ==
  /\ store[h] # NoEntry
  /\ store' = [store EXCEPT ![h].name = name]
  /\ UNCHANGED gone

Delete(h) ==
  /\ store[h] # NoEntry
  /\ store' = [store EXCEPT ![h] = NoEntry]
  /\ gone' = [gone EXCEPT ![h] = @ \cup {store[h].created}]

\* A rename was overtaken: the entry it has read is there again, in place of a
\* newer one if there is one.
BringBack(h, name, time) ==
  /\ time \in gone[h]
  /\ store' = [store EXCEPT ![h] = [name |-> name, created |-> time]]
  /\ gone' = IF store[h] = NoEntry THEN gone
             ELSE [gone EXCEPT ![h] = @ \cup {store[h].created}]

Next ==
  \E h \in Hashes :
    \/ Delete(h)
    \/ \E name \in NewNames : Rename(h, name)
    \/ \E time \in Times : Save(h, time) \/ \E name \in NewNames : BringBack(h, name, time)

Spec == Init /\ [][Next]_vars
=============================================================================
