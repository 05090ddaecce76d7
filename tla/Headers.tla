------------------------------- MODULE Headers -------------------------------
(***************************************************************************)
(* The header map of vsl/header.go.  A Headers value maps the canonical    *)
(* name of every header a transaction logged to its Header: the values it  *)
(* has after the VCL ran, each with the state the log gave it, and the     *)
(* values that were received.  Every received value has state Received, so *)
(* the model keeps only its text.  Operators return the updated map.       *)
(***************************************************************************)
EXTENDS Naturals, Sequences, FiniteSets

CONSTANTS
  Spellings,            \* header names as a log line spells them
  CanonicalHeaderName,  \* textproto.CanonicalMIMEHeaderKey, a function on Spellings
  HdrNameHost,          \* the canonical name "Host"
  Values,               \* header values
  Empty                 \* the empty value

Names == {CanonicalHeaderName[s] : s \in Spellings}

ASSUME SpellingsAssumption ==
  /\ IsFiniteSet(Spellings)
  /\ CanonicalHeaderName \in [Spellings -> Spellings]
  /\ \A n \in Names : CanonicalHeaderName[n] = n
  /\ HdrNameHost \in Names

ASSUME ValuesAssumption == Empty \in Values

-----------------------------------------------------------------------------
HdrState == {"Received", "Added", "Modified", "Deleted"}

HdrValue == [value : Values, state : HdrState]

Header == [id : Nat, values : Seq(HdrValue), receivedValues : Seq(Values)]

\* The Go map is a function on all names: an absent name has id 0.
HeadersType == [Names -> Header]

NoHeader == [id |-> 0, values |-> <<>>, receivedValues |-> <<>>]

\* make(map[string]Header), and what Clear leaves.
NoHeaders == [n \in Names |-> NoHeader]

\* The keys of the map.
Present(h) == {n \in Names : h[n].id # 0}

\* Mutant of Add: a Modified value does not discard the others.
AddKeepingOld(h, name, value, state) ==
  LET n      == CanonicalHeaderName[name]
      header == h[n]
  IN  [h EXCEPT ![n] =
        [id             |-> IF header.id = 0 THEN Cardinality(Present(h)) + 1 ELSE header.id,
         values         |-> Append(IF n = HdrNameHost THEN <<>> ELSE header.values,
                                   [value |-> value, state |-> state]),
         receivedValues |-> IF state = "Received"
                            THEN Append(header.receivedValues, value)
                            ELSE header.receivedValues]]

\* Headers.Add: a new entry is numbered in order of creation; a Modified value,
\* or any value of Host, discards the others.
Add(h, name, value, state) ==
  LET n      == CanonicalHeaderName[name]
      header == h[n]
      kept   == IF state = "Modified" \/ n = HdrNameHost THEN <<>> ELSE header.values
  IN  [h EXCEPT ![n] =
        [id             |-> IF header.id = 0 THEN Cardinality(Present(h)) + 1 ELSE header.id,
         values         |-> Append(kept, [value |-> value, state |-> state]),
         receivedValues |-> IF state = "Received"
                            THEN Append(header.receivedValues, value)
                            ELSE header.receivedValues]]

MarkDeleted(values) ==
  [i \in DOMAIN values |-> [value |-> values[i].value, state |-> "Deleted"]]

\* Mutant of Delete: the received values go too.
DeleteReceivedToo(h, name) ==
  [h EXCEPT ![CanonicalHeaderName[name]] =
     [@ EXCEPT !.values = MarkDeleted(@), !.receivedValues = <<>>]]

\* Headers.Delete: the values become Deleted; the received values do not.
Delete(h, name) ==
  [h EXCEPT ![CanonicalHeaderName[name]].values = MarkDeleted(@)]

\* Headers.Get(name, false): the first value, whatever its state.
Get(h, name) ==
  LET values == h[CanonicalHeaderName[name]].values
  IN  IF values = <<>> THEN Empty ELSE values[1].value

\* How many of the values are deleted.
NDeleted(values) == Cardinality({i \in DOMAIN values : values[i].state = "Deleted"})

\* The values a header still has, in order.
Live(values) == SubSeq(values, NDeleted(values) + 1, Len(values))

-----------------------------------------------------------------------------
\* What Add and Delete keep of a Header's values: the deleted ones come
\* first (Delete marks all, Add appends), a Modified one is alone when it is
\* added, so it can only be first.
WellFormedValues(values) ==
  /\ \A i, j \in DOMAIN values :
       (i < j /\ values[j].state = "Deleted") => values[i].state = "Deleted"
  /\ \A i \in DOMAIN values : values[i].state = "Modified" => i = 1

=============================================================================
