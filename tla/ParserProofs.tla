---------------------------- MODULE ParserProofs ----------------------------
(* Theorems about the transaction parser, whatever is logged.                  *)
(*  - the framing of transactions (TransactionParser);                         *)
(*  - its header maps: the states of their values and the ids that order them  *)
(*    are well formed, the received values are those of the records that were  *)
(*    read as received, in order, and what is kept aside is merged into them   *)
(*    as the loop of mergeTempHeaders does it (MergeLoop);                     *)
(*  - the round trip (ParseRoundTrip): whatever a worker does to its headers   *)
(*    and logs, the headers the parser rebuilds, the state of each value and   *)
(*    the request that is built of them are those the worker had and received. *)
EXTENDS ParseRoundTrip, MergeLoop, SequenceTheorems, SetInduction

-----------------------------------------------------------------------------
(* Header maps *)

\* The keys of a header map are finitely many canonical names, one for every
\* spelling of a log line (header.go, 257-259).
LEMMA NamesFinite ==
  /\ IsFiniteSet(Names)
  /\ \A s \in Spellings : CanonicalHeaderName[s] \in Names
<1>1. CanonicalHeaderName \in Surjection(Spellings, Names)
  BY SpellingsAssumption DEF Names, Surjection, Range
<1>2. IsFiniteSet(Names)
  BY <1>1, SpellingsAssumption, FS_Surjection
<1> QED BY <1>2 DEF Names

\* A set of names can be counted: len of a Go map (header.go, 129).
LEMMA CardinalityPresent ==
  ASSUME NEW S \in SUBSET Names
  PROVE  IsFiniteSet(S) /\ Cardinality(S) \in Nat
BY NamesFinite, FS_Subset, FS_CardinalityType

\* The empty map of make and Clear is a header map (header.go, 226-231).
LEMMA NoHeadersType == NoHeaders \in HeadersType
BY DEF NoHeaders, NoHeader, HeadersType, Header

\* Headers.Add gives a header map again (header.go, 117-161).
LEMMA AddType ==
  ASSUME NEW h \in HeadersType, NEW name \in Spellings, NEW value \in Values,
         NEW state \in HdrState
  PROVE  Add(h, name, value, state) \in HeadersType
<1> DEFINE n == CanonicalHeaderName[name]
           kept == IF state = "Modified" \/ n = HdrNameHost THEN <<>> ELSE h[n].values
           id == IF h[n].id = 0 THEN Cardinality(Present(h)) + 1 ELSE h[n].id
           received == IF state = "Received" THEN Append(h[n].receivedValues, value)
                       ELSE h[n].receivedValues
           new == [id |-> id, values |-> Append(kept, [value |-> value, state |-> state]),
                   receivedValues |-> received]
<1>1. n \in Names
  BY NamesFinite
<1>2. h[n] \in Header
  BY <1>1 DEF HeadersType
<1>3. Cardinality(Present(h)) \in Nat
  BY CardinalityPresent DEF Present
<1>4. id \in Nat
  BY <1>2, <1>3 DEF Header
<1>5. kept \in Seq(HdrValue)
  BY <1>2 DEF Header
<1>6. Append(kept, [value |-> value, state |-> state]) \in Seq(HdrValue)
  BY <1>5 DEF HdrValue
<1>7. received \in Seq(Values)
  BY <1>2 DEF Header
<1>8. new \in Header
  BY <1>4, <1>6, <1>7 DEF Header
<1>9. Add(h, name, value, state) = [h EXCEPT ![n] = new]
  BY DEF Add
<1> QED BY <1>1, <1>8, <1>9 DEF HeadersType

\* Marking values as deleted keeps their number (header.go, 173-177).
LEMMA MarkDeletedType ==
  ASSUME NEW values \in Seq(HdrValue)
  PROVE  MarkDeleted(values) \in Seq(HdrValue) /\ Len(MarkDeleted(values)) = Len(values)
<1>1. MarkDeleted(values) = [i \in 1..Len(values) |-> [value |-> values[i].value, state |-> "Deleted"]]
  BY DEF MarkDeleted
<1>2. \A i \in 1..Len(values) : [value |-> values[i].value, state |-> "Deleted"] \in HdrValue
  BY ElementOfSeq DEF HdrValue, HdrState
<1> QED BY <1>1, <1>2

\* Headers.Delete gives a header map again (header.go, 163-180).
LEMMA DeleteType ==
  ASSUME NEW h \in HeadersType, NEW name \in Spellings
  PROVE  Delete(h, name) \in HeadersType
<1> DEFINE n == CanonicalHeaderName[name]
<1>1. n \in Names /\ h[n] \in Header
  BY NamesFinite DEF HeadersType
<1>2. [h[n] EXCEPT !.values = MarkDeleted(h[n].values)] \in Header
  BY <1>1, MarkDeletedType DEF Header
<1>3. Delete(h, name) = [h EXCEPT ![n] = [h[n] EXCEPT !.values = MarkDeleted(h[n].values)]]
  BY <1>1 DEF Delete, HeadersType
<1> QED BY <1>1, <1>2, <1>3 DEF HeadersType

\* addProcessedHeaders gives a header map again (parser.go, 389-399).
LEMMA AddProcessedHeadersType ==
  ASSUME NEW h \in HeadersType, NEW name \in Spellings, NEW value \in Values
  PROVE  AddProcessedHeaders(h, name, value) \in HeadersType
BY AddType DEF AddProcessedHeaders, HdrState

\* The values that are left of a header are values (parser.go, 365-375).
LEMMA LiveType ==
  ASSUME NEW values \in Seq(HdrValue)
  PROVE  NDeleted(values) \in Nat /\ Live(values) \in Seq(HdrValue)
<1>1. IsFiniteSet({i \in DOMAIN values : values[i].state = "Deleted"})
  <2>1. DOMAIN values = 1..Len(values)
    BY LenProperties
  <2>2. IsFiniteSet(1..Len(values))
    BY LenProperties, FS_Interval
  <2> QED BY <2>1, <2>2, FS_Subset
<1>2. NDeleted(values) \in Nat
  BY <1>1, FS_CardinalityType DEF NDeleted
<1> QED BY <1>2, SubSeqProperties DEF Live

\* The merge of one header gives values again (parser.go, 356-384).
LEMMA MergedValuesType ==
  ASSUME NEW values \in Seq(HdrValue), NEW temp \in Header
  PROVE  MergedValues(values, temp) \in Seq(HdrValue)
<1> DEFINE received == [i \in DOMAIN temp.receivedValues |->
                          [value |-> temp.receivedValues[i], state |-> "Received"]]
           base == values \o received
<1>1. received \in Seq(HdrValue)
  <2>1. temp.receivedValues \in Seq(Values)
    BY DEF Header
  <2>2. \A i \in DOMAIN temp.receivedValues :
          [value |-> temp.receivedValues[i], state |-> "Received"] \in HdrValue
    BY <2>1, ElementOfSeq DEF HdrValue, HdrState
  <2>3. DOMAIN temp.receivedValues = 1..Len(temp.receivedValues)
        /\ Len(temp.receivedValues) \in Nat
    BY <2>1, LenProperties
  <2> QED BY <2>2, <2>3, IsASeq
<1>2. base \in Seq(HdrValue) /\ MarkDeleted(base) \in Seq(HdrValue)
  BY <1>1, ConcatProperties, MarkDeletedType
<1>3. Live(temp.values) \in Seq(HdrValue)
  BY LiveType DEF Header
<1> QED BY <1>2, <1>3, ConcatProperties DEF MergedValues

\* mergeTempHeaders gives a header map again (parser.go, 353-387).
LEMMA MergeTempHeadersType ==
  ASSUME NEW h \in HeadersType, NEW temp \in HeadersType
  PROVE  MergeTempHeaders(h, temp) \in HeadersType
<1> DEFINE new == {n \in Present(temp) \ Present(h) :
                     temp[n].receivedValues # <<>> \/ Live(temp[n].values) # <<>>}
           id(n) == IF n \notin new THEN h[n].id
                    ELSE Cardinality(Present(h))
                         + Cardinality({m \in new : temp[m].id <= temp[n].id})
           merged(n) == [id |-> id(n), values |-> MergedValues(h[n].values, temp[n]),
                         receivedValues |-> h[n].receivedValues \o temp[n].receivedValues]
<1>1. \A n \in Names : id(n) \in Nat
  <2> SUFFICES ASSUME NEW n \in Names PROVE id(n) \in Nat
    OBVIOUS
  <2>1. Cardinality(Present(h)) \in Nat
    BY CardinalityPresent DEF Present
  <2>2. Cardinality({m \in new : temp[m].id <= temp[n].id}) \in Nat
    BY CardinalityPresent DEF Present
  <2>3. h[n].id \in Nat
    BY DEF HeadersType, Header
  <2> QED BY <2>1, <2>2, <2>3
<1>2. \A n \in Names : h[n] \in Header /\ merged(n) \in Header
  <2> SUFFICES ASSUME NEW n \in Names PROVE h[n] \in Header /\ merged(n) \in Header
    OBVIOUS
  <2>1. h[n] \in Header /\ temp[n] \in Header
    BY DEF HeadersType
  <2>2. MergedValues(h[n].values, temp[n]) \in Seq(HdrValue)
    BY <2>1, MergedValuesType DEF Header
  <2>3. h[n].receivedValues \o temp[n].receivedValues \in Seq(Values)
    BY <2>1, ConcatProperties DEF Header
  <2>4. id(n) \in Nat
    BY <1>1
  <2> HIDE DEF id
  <2> QED BY <2>1, <2>2, <2>3, <2>4 DEF Header
<1>3. MergeTempHeaders(h, temp) =
        [n \in Names |-> IF n \notin Present(temp) \cap (Present(h) \cup new) THEN h[n]
                         ELSE merged(n)]
  BY DEF MergeTempHeaders
<1> HIDE DEF merged, new
<1> QED BY <1>2, <1>3 DEF HeadersType

-----------------------------------------------------------------------------
(* Type correctness *)

\* A line of the log gives a record with the fields of its tag (parser.go,
\* 225-315).
LEMMA ProcessRecordType ==
  ASSUME NEW l \in Lines
  PROVE  /\ ProcessRecord(l) \in Records
         /\ l.tag \in HeaderTags \cup UnsetTags => l.name \in Spellings /\ l.value \in Values
         /\ l.tag \in {"start", "Link"} => l.vxid \in VXIDs
         /\ l.tag = "Begin" => l.parent \in VXIDs \cup {0}
BY LinesAssumption DEF Records

\* Appending a record keeps a transaction one, and its VXID (parser.go, 101).
LEMMA WithRecordType ==
  ASSUME NEW t \in TxType, NEW l \in Lines
  PROVE  WithRecord(t, l) \in TxType /\ WithRecord(t, l).vxid = t.vxid
<1>1. Append(t.records, ProcessRecord(l)) \in Seq(Records)
  BY ProcessRecordType, AppendProperties DEF TxType
<1> QED BY <1>1 DEF WithRecord, TxType

\* The map a header tag selects is a header map, and a transaction keeps its
\* type and VXID when it is replaced (parser.go, 150-171).
LEMMA HeadersOfType ==
  ASSUME NEW t \in TxType, NEW tag, NEW h \in HeadersType
  PROVE  /\ HeadersOf(t, tag) \in HeadersType
         /\ WithHeaders(t, tag, h) \in TxType /\ WithHeaders(t, tag, h).vxid = t.vxid
BY DEF TxType, HeadersOf, WithHeaders

\* NewTransaction gives a transaction with the VXID of its line
\* (transaction.go, 47-74).
LEMMA NewTransactionType ==
  ASSUME NEW v \in VXIDs \cup {0}
  PROVE  NewTransaction(v) \in TxType /\ NewTransaction(v).vxid = v
<1>1. NoHeaders \in HeadersType
  BY NoHeadersType
<1>2. <<>> \in Seq(Records) /\ <<>> \in Seq(VXIDs)
  OBVIOUS
<1> QED BY <1>1, <1>2 DEF NewTransaction, TxType

\* Every action keeps the types (parser.go, 31-223).
LEMMA ReadLineType ==
  ASSUME TypeOK, NEW l \in Lines, ReadLine(l)
  PROVE  TypeOK'
<1> USE DEF TypeOK
<1> DEFINE t == WithRecord(tx, l)
<1>t. t \in TxType /\ t.vxid = tx.vxid
  BY WithRecordType
<1>n. lines < MaxLines /\ lines' = lines + 1 => lines' \in 0..MaxLines
  BY MaxLinesAssumption
<1>1. CASE SkipOuter(l)
  BY <1>1, <1>n DEF SkipOuter, Scan, locals
<1>2. CASE StartTransaction(l)
  BY <1>2, <1>n, NewTransactionType, ProcessRecordType DEF StartTransaction, Scan, locals
<1>3. CASE BadTransaction(l)
  BY <1>3, <1>n DEF BadTransaction, Scan, locals
<1>4. CASE ReadBegin(l)
  <2>1. tx' \in TxType /\ tx'.vxid \in VXIDs
    BY <1>4, <1>t, ProcessRecordType DEF ReadBegin, Scan, TxType
  <2> QED BY <1>4, <1>n, <2>1, NoHeadersType DEF ReadBegin, Scan
<1>5. CASE MissingBegin(l)
  BY <1>5, <1>n DEF MissingBegin, Scan, locals
<1>6. CASE SkipShort(l)
  BY <1>6, <1>n DEF SkipShort, Scan, locals
<1>7. CASE BadRecord(l)
  BY <1>7, <1>n DEF BadRecord, Scan, locals
<1>8. CASE StoreRecord(l)
  BY <1>8, <1>n, <1>t DEF StoreRecord, Scan, locals
<1>9. CASE DuplicateBegin(l)
  BY <1>9, <1>n, <1>t DEF DuplicateBegin, Scan, locals
<1>10. CASE VCLCall(l)
  <2>1. tx' \in TxType /\ tx'.vxid = tx.vxid
    <3>1. MergeTempHeaders(t.respHeaders, tempHeaders) \in HeadersType
          /\ MergeTempHeaders(t.reqHeaders, tempHeaders) \in HeadersType
      BY <1>t, MergeTempHeadersType DEF TxType
    <3>2. \A h \in HeadersType :
            /\ [t EXCEPT !.respHeaders = h] \in TxType /\ [t EXCEPT !.respHeaders = h].vxid = t.vxid
            /\ [t EXCEPT !.reqHeaders = h] \in TxType /\ [t EXCEPT !.reqHeaders = h].vxid = t.vxid
      BY <1>t DEF TxType
    <3> HIDE DEF t
    <3>3. CASE ~clientHeaders
      BY <1>10, <1>t, <3>3 DEF VCLCall, t
    <3>4. CASE clientHeaders /\ lastHeader = "none"
      BY <1>10, <1>t, <3>4 DEF VCLCall, t
    <3>5. CASE clientHeaders /\ lastHeader = "resp"
      BY <1>10, <1>t, <3>1, <3>2, <3>5 DEF VCLCall, t
    <3>6. CASE clientHeaders /\ lastHeader = "req"
      BY <1>10, <1>t, <3>1, <3>2, <3>6 DEF VCLCall, t
    <3> QED BY <3>3, <3>4, <3>5, <3>6
  <2>2. tempHeaders' \in HeadersType
    BY <1>10, NoHeadersType DEF VCLCall
  <2> QED BY <1>10, <1>n, <2>1, <2>2 DEF VCLCall, Scan
<1>11. CASE Status(l)
  BY <1>11, <1>n, <1>t DEF Status, Scan
<1>12. CASE Link(l)
  <2>1. tx' \in TxType /\ tx'.vxid = tx.vxid
    <3>1. Append(tx.children, l.vxid) \in Seq(VXIDs)
      BY <1>12, ProcessRecordType, AppendProperties DEF Link, TxType
    <3>2. /\ [t EXCEPT !.children = Append(tx.children, l.vxid)] \in TxType
          /\ [t EXCEPT !.children = Append(tx.children, l.vxid)].vxid = t.vxid
      BY <1>t, <3>1 DEF TxType
    <3> QED BY <1>12, <1>t, <3>2 DEF Link
  <2> QED BY <1>12, <1>n, <2>1 DEF Link, Scan, locals
<1>13. CASE HeaderRecord(l)
  <2> DEFINE h == HeadersOf(tx, l.tag)
             g == IF clientHeaders THEN Add(h, l.name, l.value, "Received")
                  ELSE AddProcessedHeaders(h, l.name, l.value)
  <2>1. l.name \in Spellings /\ l.value \in Values
    BY <1>13, ProcessRecordType DEF HeaderRecord
  <2>2. h \in HeadersType
    BY HeadersOfType, NoHeadersType
  <2>3. g \in HeadersType
    BY <2>1, <2>2, AddType, AddProcessedHeadersType DEF HdrState
  <2>4. WithHeaders(t, l.tag, g) \in TxType /\ WithHeaders(t, l.tag, g).vxid = tx.vxid
    BY <1>t, <2>3, HeadersOfType
  <2>5. AddProcessedHeaders(tempHeaders, l.name, l.value) \in HeadersType
    BY <2>1, AddProcessedHeadersType
  <2> HIDE DEF t, g, h
  <2>6. tx' \in TxType /\ tx'.vxid = tx.vxid /\ tempHeaders' \in HeadersType
    BY <1>13, <1>t, <2>4, <2>5 DEF HeaderRecord, t, g, h
  <2>7. lastHeader' \in {"none", "req", "resp"}
    BY <1>13 DEF HeaderRecord
  <2> QED BY <1>13, <1>n, <2>6, <2>7 DEF HeaderRecord, Scan
<1>14. CASE HeaderUnset(l)
  <2>1. l.name \in Spellings /\ l.value \in Values
    BY <1>14, ProcessRecordType DEF HeaderUnset
  <2>2. HeadersOf(tx, l.tag) \in HeadersType
    BY HeadersOfType, NoHeadersType
  <2>3. tx' \in TxType /\ tx'.vxid = tx.vxid
    BY <1>14, <1>t, <2>1, <2>2, DeleteType, HeadersOfType DEF HeaderUnset
  <2>4. tempHeaders' \in HeadersType
    BY <1>14, <2>1, AddType, DeleteType DEF HeaderUnset, HdrState
  <2> QED BY <1>14, <1>n, <2>3, <2>4 DEF HeaderUnset, Scan
<1>15. CASE End(l)
  <2>1. PICK stored \in SUBSET VXIDs : txs \in [stored -> TxType]
    OBVIOUS
  <2>2. tx.vxid \in VXIDs
    BY <1>15 DEF End, Scan
  <2>3. txs' = [v \in DOMAIN txs \cup {tx.vxid} |-> IF v = tx.vxid THEN t ELSE txs[v]]
    BY <1>15 DEF End
  <2> HIDE DEF t
  <2>4. stored \cup {tx.vxid} \in SUBSET VXIDs /\ txs' \in [stored \cup {tx.vxid} -> TxType]
    BY <1>t, <2>1, <2>2, <2>3
  <2>5. \E s \in SUBSET VXIDs : txs' \in [s -> TxType]
    BY <2>4
  <2>6. tx' \in TxType
    BY <1>15, <1>t DEF End, t
  <2> QED BY <1>15, <1>n, <2>5, <2>6 DEF End, Scan, locals
<1> QED BY <1>1, <1>2, <1>3, <1>4, <1>5, <1>6, <1>7, <1>8, <1>9, <1>10, <1>11, <1>12,
           <1>13, <1>14, <1>15 DEF ReadLine

\* Every step of Parse keeps the types (parser.go, 31-223).
LEMMA NextType ==
  ASSUME TypeOK, [Next]_vars
  PROVE  TypeOK'
<1>1. CASE \E l \in Lines : ReadLine(l)
  BY <1>1, ReadLineType
<1>2. CASE EndOfInput
  BY <1>2 DEF EndOfInput, TypeOK, locals
<1>3. CASE ScanError
  BY <1>3 DEF ScanError, TypeOK, locals
<1>4. CASE UNCHANGED vars
  BY <1>4 DEF vars, TypeOK
<1> QED BY <1>1, <1>2, <1>3, <1>4 DEF Next

\* The types hold at the first line (parser.go, 31-35).
LEMMA InitType == Init => TypeOK
<1> SUFFICES ASSUME Init PROVE TypeOK
  OBVIOUS
<1>1. txs \in [{} -> TxType]
  BY DEF Init
<1>2. \E stored \in SUBSET VXIDs : txs \in [stored -> TxType]
  BY <1>1
<1>3. lines \in 0..MaxLines
  BY MaxLinesAssumption DEF Init
<1> QED BY <1>2, <1>3, NewTransactionType, NoHeadersType DEF Init, TypeOK

\* Type correctness: whatever the log, Parse's locals and its result keep their
\* types; in particular only transactions with a VXID of the log are stored.
THEOREM TypeCorrect == Spec => []TypeOK
BY InitType, NextType, PTL DEF Spec

-----------------------------------------------------------------------------
(* Headers kept aside *)

\* Headers.Delete on an empty map does nothing (header.go, 164-171).
LEMMA DeleteNone ==
  ASSUME NEW name \in Spellings
  PROVE  Delete(NoHeaders, name) = NoHeaders
<1> DEFINE n == CanonicalHeaderName[name]
<1>1. n \in Names
  BY NamesFinite
<1>2. MarkDeleted(<<>>) = <<>>
  BY DEF MarkDeleted
<1>3. Delete(NoHeaders, name) = [NoHeaders EXCEPT ![n] = [NoHeader EXCEPT !.values = <<>>]]
  BY <1>1, <1>2 DEF Delete, NoHeaders, NoHeader
<1>4. [NoHeader EXCEPT !.values = <<>>] = NoHeader
  BY DEF NoHeader
<1> QED BY <1>1, <1>3, <1>4 DEF NoHeaders

\* After the first VCL call nothing is kept aside: the merge empties the map,
\* while VCL runs a header goes to the transaction and an unset deletes from an
\* empty map (parser.go, 104-124, 158-193).
THEOREM NoTempCorrect == Spec => []NoTempAfterVCLCall
<1>1. Init => NoTempAfterVCLCall
  BY DEF Init, NoTempAfterVCLCall
<1>2. NoTempAfterVCLCall /\ [Next]_vars => NoTempAfterVCLCall'
  <2> SUFFICES ASSUME NoTempAfterVCLCall, [Next]_vars PROVE NoTempAfterVCLCall'
    OBVIOUS
  <2> USE DEF NoTempAfterVCLCall
  <2>1. ASSUME NEW l \in Lines, ReadLine(l) PROVE NoTempAfterVCLCall'
    <3>1. CASE SkipOuter(l) \/ StartTransaction(l) \/ BadTransaction(l) \/ MissingBegin(l)
      BY <3>1 DEF SkipOuter, StartTransaction, BadTransaction, MissingBegin, Scan, locals
    <3>2. CASE ReadBegin(l)
      BY <3>2 DEF ReadBegin
    <3>3. CASE SkipShort(l) \/ BadRecord(l) \/ StoreRecord(l) \/ DuplicateBegin(l) \/ Link(l)
      BY <3>3 DEF SkipShort, BadRecord, StoreRecord, DuplicateBegin, Link, Scan, locals
    <3>4. CASE VCLCall(l)
      BY <3>4 DEF VCLCall, Scan
    <3>5. CASE Status(l)
      BY <3>5 DEF Status
    <3>6. CASE HeaderRecord(l)
      BY <3>6 DEF HeaderRecord, Scan
    <3>7. CASE HeaderUnset(l)
      BY <3>7, ProcessRecordType, DeleteNone DEF HeaderUnset, Scan
    <3>8. CASE End(l)
      BY <3>8 DEF End
    <3> QED BY <2>1, <3>1, <3>2, <3>3, <3>4, <3>5, <3>6, <3>7, <3>8 DEF ReadLine
  <2>2. CASE EndOfInput \/ ScanError
    BY <2>2 DEF EndOfInput, ScanError
  <2>3. CASE UNCHANGED vars
    BY <2>3 DEF vars
  <2> QED BY <2>1, <2>2, <2>3 DEF Next
<1> QED BY <1>1, <1>2, PTL DEF Spec

-----------------------------------------------------------------------------
(* Whole transactions *)

\* What StoredAreComplete needs while a transaction is read: nothing yet before
\* the Begin record; after it, a frame that is only open at its end.
Reading ==
  /\ pc = "begin" => tx.records = <<>> /\ tx.children = <<>>
  /\ pc = "inner" => /\ FramedByBegin(tx)
                     /\ \A i \in DOMAIN tx.records : tx.records[i].tag # "End"
                     /\ ChildrenAreLinks(tx)

\* processRecord keeps the tag, and changes header records only (parser.go, 225-315).
LEMMA ProcessRecordFields ==
  ASSUME NEW l \in Lines
  PROVE  /\ ProcessRecord(l).tag = l.tag
         /\ l.tag \notin HeaderTags \cup UnsetTags => ProcessRecord(l) = l
<1>1. CASE l.tag \in HeaderTags \cup UnsetTags
  <2>1. l \in [tag : HeaderTags \cup UnsetTags, name : Spellings, value : Values]
    BY <1>1, LinesAssumption
  <2> QED BY <1>1, <2>1 DEF ProcessRecord
<1>2. CASE l.tag \notin HeaderTags \cup UnsetTags
  BY <1>2 DEF ProcessRecord
<1> QED BY <1>1, <1>2

\* A record at the end leaves the earlier ones where they are (parser.go, 101).
LEMMA AppendRecord ==
  ASSUME NEW records \in Seq(Records), NEW r
  PROVE  LET longer == Append(records, r)
         IN  /\ Len(records) \in Nat /\ Len(longer) = Len(records) + 1
             /\ DOMAIN records = 1..Len(records) /\ DOMAIN longer = 1..Len(longer)
             /\ \A i \in DOMAIN records : longer[i] = records[i]
             /\ longer[Len(longer)] = r
<1>1. records \in Seq(Records \cup {r}) /\ r \in Records \cup {r}
  BY SeqMonotonic
<1> QED BY <1>1, AppendProperties, LenProperties

\* A record that is not a Begin leaves the frame of the transaction that is read
\* open at its end only (parser.go, 101-196).
LEMMA FrameGrows ==
  ASSUME NEW t \in TxType, NEW u \in TxType, NEW l \in Lines, l.tag # "Begin",
         FramedByBegin(t), u.records = Append(t.records, ProcessRecord(l)),
         u.parent = t.parent
  PROVE  FramedByBegin(u)
<1> DEFINE rs == t.records
<1>1. rs \in Seq(Records)
  BY DEF TxType
<1>2. ProcessRecord(l).tag # "Begin"
  BY ProcessRecordFields
<1>3. Len(rs) \in Nat /\ Len(rs) >= 1 /\ rs[1].tag = "Begin" /\ rs[1].parent = t.parent
  BY <1>1, LenProperties, EmptySeq DEF FramedByBegin
<1> HIDE DEF rs
<1>4. /\ Len(u.records) = Len(rs) + 1
      /\ \A i \in 1..Len(rs) : u.records[i] = rs[i]
      /\ u.records[Len(rs) + 1] = ProcessRecord(l)
  BY <1>1, AppendRecord DEF rs
<1>5. u.records # <<>>
  BY <1>3, <1>4
<1>6. \A i \in 2..Len(rs) : rs[i].tag # "Begin"
  BY DEF FramedByBegin, rs
<1>7. \A i \in 2..Len(u.records) : u.records[i].tag # "Begin"
  <2> SUFFICES ASSUME NEW i \in 2..Len(u.records) PROVE u.records[i].tag # "Begin"
    OBVIOUS
  <2>1. CASE i \in 2..Len(rs)
    BY <1>3, <1>4, <1>6, <2>1
  <2>2. CASE i = Len(rs) + 1
    BY <1>2, <1>4, <2>2
  <2> QED BY <1>3, <1>4, <2>1, <2>2
<1>8. u.records[1] = rs[1]
  BY <1>3, <1>4
<1> QED BY <1>3, <1>5, <1>7, <1>8 DEF FramedByBegin

\* A record other than Link leaves the children the targets of the Link
\* records (parser.go, 101).
LEMMA ChildrenStay ==
  ASSUME NEW t \in TxType, NEW u \in TxType, NEW l \in Lines, l.tag # "Link",
         ChildrenAreLinks(t), u.records = Append(t.records, ProcessRecord(l)),
         u.children = t.children
  PROVE  ChildrenAreLinks(u)
<1> DEFINE rs == t.records
<1>1. rs \in Seq(Records)
  BY DEF TxType
<1>2. ProcessRecord(l).tag # "Link"
  BY ProcessRecordFields
<1>3. /\ Len(rs) \in Nat /\ DOMAIN rs = 1..Len(rs)
      /\ DOMAIN u.records = 1..(Len(rs) + 1)
      /\ \A i \in 1..Len(rs) : u.records[i] = rs[i]
      /\ u.records[Len(rs) + 1] = ProcessRecord(l)
  BY <1>1, AppendRecord
<1>4. \A i \in DOMAIN u.records :
        u.records[i].tag = "Link" => i \in DOMAIN rs /\ u.records[i] = rs[i]
  BY <1>2, <1>3
<1>5. \A i \in DOMAIN rs : i \in DOMAIN u.records /\ u.records[i] = rs[i]
  BY <1>3
<1> QED BY <1>4, <1>5 DEF ChildrenAreLinks

\* A Link record adds its target to the children unless it is there (parser.go, 126-133).
LEMMA ChildrenGrow ==
  ASSUME NEW t \in TxType, NEW u \in TxType, NEW l \in Lines, l.tag = "Link",
         ChildrenAreLinks(t), u.records = Append(t.records, ProcessRecord(l)),
         u.children = IF \E i \in DOMAIN t.children : t.children[i] = l.vxid
                      THEN t.children ELSE Append(t.children, l.vxid)
  PROVE  ChildrenAreLinks(u)
<1> DEFINE rs == t.records
           cs == t.children
<1>1. rs \in Seq(Records) /\ cs \in Seq(VXIDs) /\ l.vxid \in VXIDs
  BY LinesAssumption DEF TxType
<1>2. ProcessRecord(l) = l
  BY ProcessRecordFields DEF HeaderTags, UnsetTags
<1>3. /\ Len(rs) \in Nat /\ DOMAIN rs = 1..Len(rs)
      /\ DOMAIN u.records = 1..(Len(rs) + 1)
      /\ \A i \in 1..Len(rs) : u.records[i] = rs[i]
      /\ u.records[Len(rs) + 1] = l
  BY <1>1, <1>2, AppendRecord
<1>4. /\ \A c \in DOMAIN cs : c \in DOMAIN u.children /\ u.children[c] = cs[c]
      /\ \A c \in DOMAIN u.children \ DOMAIN cs :
           u.children[c] = l.vxid /\ \A d \in DOMAIN cs : cs[d] # l.vxid
      /\ \A c, d \in DOMAIN u.children \ DOMAIN cs : c = d
      /\ \E c \in DOMAIN u.children : u.children[c] = l.vxid
  <2>1. CASE \E i \in DOMAIN cs : cs[i] = l.vxid
    BY <2>1
  <2>2. CASE ~ \E i \in DOMAIN cs : cs[i] = l.vxid
    <3>1. u.children = Append(cs, l.vxid)
      BY <2>2
    <3>2. /\ Len(cs) \in Nat /\ DOMAIN cs = 1..Len(cs)
          /\ DOMAIN u.children = 1..(Len(cs) + 1)
          /\ \A c \in 1..Len(cs) : u.children[c] = cs[c]
          /\ u.children[Len(cs) + 1] = l.vxid
      BY <1>1, <3>1, AppendProperties, LenProperties
    <3> QED BY <2>2, <3>2
  <2> QED BY <2>1, <2>2
<1>5. \A i \in DOMAIN rs : i \in DOMAIN u.records /\ u.records[i] = rs[i]
  BY <1>3
<1>6. \A i \in DOMAIN u.records : u.records[i].tag = "Link" =>
        \E c \in DOMAIN u.children : u.children[c] = u.records[i].vxid
  <2> SUFFICES ASSUME NEW i \in DOMAIN u.records, u.records[i].tag = "Link"
               PROVE  \E c \in DOMAIN u.children : u.children[c] = u.records[i].vxid
    OBVIOUS
  <2>1. CASE i \in DOMAIN rs
    BY <1>4, <1>5, <2>1 DEF ChildrenAreLinks
  <2>2. CASE i = Len(rs) + 1
    BY <1>3, <1>4, <2>2
  <2> QED BY <1>3, <2>1, <2>2
<1>7. \A c \in DOMAIN u.children : \E i \in DOMAIN u.records :
        u.records[i].tag = "Link" /\ u.records[i].vxid = u.children[c]
  <2> SUFFICES ASSUME NEW c \in DOMAIN u.children
               PROVE  \E i \in DOMAIN u.records :
                        u.records[i].tag = "Link" /\ u.records[i].vxid = u.children[c]
    OBVIOUS
  <2>1. CASE c \in DOMAIN cs
    BY <1>4, <1>5, <2>1 DEF ChildrenAreLinks
  <2>2. CASE c \notin DOMAIN cs
    <3>1. u.children[c] = l.vxid /\ Len(rs) + 1 \in DOMAIN u.records
      BY <1>3, <1>4, <2>2
    <3> QED BY <1>3, <3>1
  <2> QED BY <2>1, <2>2
<1>8. \A c, d \in DOMAIN u.children : u.children[c] = u.children[d] => c = d
  <2> SUFFICES ASSUME NEW c \in DOMAIN u.children, NEW d \in DOMAIN u.children,
                      u.children[c] = u.children[d]
               PROVE  c = d
    OBVIOUS
  <2>1. CASE c \in DOMAIN cs /\ d \in DOMAIN cs
    BY <1>4, <2>1 DEF ChildrenAreLinks
  <2>2. CASE c \in DOMAIN cs /\ d \notin DOMAIN cs
    BY <1>4, <2>2
  <2>3. CASE c \notin DOMAIN cs /\ d \in DOMAIN cs
    BY <1>4, <2>3
  <2>4. CASE c \notin DOMAIN cs /\ d \notin DOMAIN cs
    BY <1>4, <2>4
  <2> QED BY <2>1, <2>2, <2>3, <2>4
<1> QED BY <1>6, <1>7, <1>8 DEF ChildrenAreLinks

\* What an inner action that stores a record other than Link or Begin does to
\* the rest of the transaction: nothing (parser.go, 101-195).
LEMMA RecordRead ==
  ASSUME TypeOK, NEW l \in Lines,
         \/ StoreRecord(l) \/ VCLCall(l) \/ Status(l) \/ HeaderRecord(l) \/ HeaderUnset(l)
         \/ End(l)
  PROVE  /\ tx'.records = Append(tx.records, ProcessRecord(l))
         /\ tx'.children = tx.children /\ tx'.parent = tx.parent /\ tx'.vxid = tx.vxid
<1> DEFINE t == WithRecord(tx, l)
           Same(u) == /\ u.records = Append(tx.records, ProcessRecord(l))
                      /\ u.children = tx.children /\ u.parent = tx.parent /\ u.vxid = tx.vxid
<1>1. t \in TxType /\ Same(t)
  BY WithRecordType DEF TypeOK, TxType, WithRecord
<1>2. \A h : /\ Same([t EXCEPT !.respHeaders = h])
             /\ Same([t EXCEPT !.reqHeaders = h])
             /\ Same(WithHeaders(t, l.tag, h))
  BY <1>1 DEF TxType, WithHeaders
<1> HIDE DEF t, Same
<1>3. CASE StoreRecord(l) \/ Status(l) \/ End(l)
  <2>1. tx' = t
    BY <1>3 DEF StoreRecord, Status, End, t
  <2> QED BY <1>1, <2>1 DEF Same
<1>4. CASE VCLCall(l)
  <2>1. Same(tx')
    <3>1. CASE ~clientHeaders
      BY <1>1, <1>4, <3>1 DEF VCLCall, t
    <3>2. CASE clientHeaders /\ lastHeader = "none"
      BY <1>1, <1>4, <3>2 DEF VCLCall, t
    <3>3. CASE clientHeaders /\ lastHeader = "resp"
      BY <1>2, <1>4, <3>3 DEF VCLCall, t
    <3>4. CASE clientHeaders /\ lastHeader = "req"
      BY <1>2, <1>4, <3>4 DEF VCLCall, t
    <3> QED BY <3>1, <3>2, <3>3, <3>4 DEF TypeOK
  <2> QED BY <2>1 DEF Same
<1>5. CASE HeaderRecord(l)
  <2>1. Same(tx')
    BY <1>1, <1>2, <1>5 DEF HeaderRecord, t
  <2> QED BY <2>1 DEF Same
<1>6. CASE HeaderUnset(l)
  <2>1. Same(tx')
    BY <1>2, <1>6 DEF HeaderUnset, t
  <2> QED BY <2>1 DEF Same
<1> QED BY <1>3, <1>4, <1>5, <1>6

\* A line read while the transaction is whole or open leaves it so.
LEMMA ReadingStep ==
  ASSUME TypeOK, TypeOK', Reading, NEW l \in Lines, ReadLine(l)
  PROVE  Reading'
<1> USE DEF Reading
<1>t. tx \in TxType /\ tx' \in TxType
  BY DEF TypeOK
<1>1. CASE SkipOuter(l) \/ BadTransaction(l) \/ MissingBegin(l) \/ BadRecord(l)
           \/ DuplicateBegin(l) \/ End(l)
  BY <1>1 DEF SkipOuter, BadTransaction, MissingBegin, BadRecord, DuplicateBegin, End, Scan
<1>2. CASE StartTransaction(l)
  BY <1>2 DEF StartTransaction, NewTransaction
<1>3. CASE ReadBegin(l)
  <2>1. /\ l.tag = "Begin" /\ ProcessRecord(l) = l /\ pc' = "inner"
        /\ tx.records = <<>> /\ tx.children = <<>>
    BY <1>3, ProcessRecordFields DEF ReadBegin, Scan, HeaderTags, UnsetTags
  <2>2. tx'.records = Append(<<>>, l) /\ tx'.children = <<>> /\ tx'.parent = l.parent
    BY <1>3, <1>t, <2>1 DEF ReadBegin, WithRecord, TxType
  <2>3. Len(tx'.records) = 1 /\ DOMAIN tx'.records = {1} /\ tx'.records[1] = l
    BY <2>2
  <2>4. FramedByBegin(tx')
    BY <2>1, <2>2, <2>3 DEF FramedByBegin
  <2>5. ChildrenAreLinks(tx')
    BY <2>1, <2>2, <2>3 DEF ChildrenAreLinks
  <2> QED BY <2>1, <2>3, <2>4, <2>5
<1>4. CASE SkipShort(l)
  BY <1>4 DEF SkipShort, Scan
<1>5. CASE StoreRecord(l) \/ VCLCall(l) \/ Status(l) \/ HeaderRecord(l) \/ HeaderUnset(l)
  <2>1. /\ pc = "inner" /\ pc' = "inner"
        /\ l.tag # "Begin" /\ l.tag # "Link" /\ l.tag # "End"
    BY <1>5 DEF StoreRecord, VCLCall, Status, HeaderRecord, HeaderUnset, Scan,
                HeaderTags, UnsetTags
  <2>2. /\ tx'.records = Append(tx.records, ProcessRecord(l))
        /\ tx'.children = tx.children /\ tx'.parent = tx.parent
    BY <1>5, RecordRead
  <2>3. FramedByBegin(tx') /\ ChildrenAreLinks(tx')
    BY <1>t, <2>1, <2>2, FrameGrows, ChildrenStay
  <2>4. \A i \in DOMAIN tx'.records : tx'.records[i].tag # "End"
    BY <1>t, <2>1, <2>2, AppendRecord, ProcessRecordFields DEF TxType
  <2> QED BY <2>1, <2>3, <2>4
<1>6. CASE Link(l)
  <2>1. pc = "inner" /\ pc' = "inner" /\ l.tag = "Link"
    BY <1>6 DEF Link, Scan
  <2>2. /\ tx'.records = Append(tx.records, ProcessRecord(l)) /\ tx'.parent = tx.parent
        /\ tx'.children = IF \E i \in DOMAIN tx.children : tx.children[i] = l.vxid
                          THEN tx.children ELSE Append(tx.children, l.vxid)
    BY <1>6, <1>t DEF Link, WithRecord, TxType
  <2>3. FramedByBegin(tx') /\ ChildrenAreLinks(tx')
    BY <1>t, <2>1, <2>2, FrameGrows, ChildrenGrow
  <2>4. \A i \in DOMAIN tx'.records : tx'.records[i].tag # "End"
    BY <1>t, <2>1, <2>2, AppendRecord, ProcessRecordFields DEF TxType
  <2> QED BY <2>1, <2>3, <2>4
<1> QED BY <1>1, <1>2, <1>3, <1>4, <1>5, <1>6 DEF ReadLine

\* The End record closes the frame: the set gets the whole transaction
\* (parser.go, 195-204).
LEMMA EndStoresWhole ==
  ASSUME TypeOK, TypeOK', Reading, NEW l \in Lines, End(l)
  PROVE  /\ pc = "inner" /\ pc' = "outer"
         /\ tx.vxid \in VXIDs /\ tx'.vxid = tx.vxid /\ Whole(tx')
         /\ txs' = [v \in DOMAIN txs \cup {tx.vxid} |-> IF v = tx.vxid THEN tx' ELSE txs[v]]
<1>1. /\ pc = "inner" /\ pc' = "outer" /\ l.tag = "End"
      /\ tx \in TxType /\ tx' \in TxType /\ tx.vxid \in VXIDs
  BY DEF End, Scan, TypeOK
<1>2. /\ tx'.records = Append(tx.records, ProcessRecord(l))
      /\ tx'.children = tx.children /\ tx'.parent = tx.parent /\ tx'.vxid = tx.vxid
  BY RecordRead
<1>3. txs' = [v \in DOMAIN txs \cup {tx.vxid} |-> IF v = tx.vxid THEN tx' ELSE txs[v]]
  BY DEF End
<1>4. FramedByBegin(tx') /\ ChildrenAreLinks(tx')
  BY <1>1, <1>2, FrameGrows, ChildrenStay DEF Reading
<1>5. \A i \in DOMAIN tx'.records : tx'.records[i].tag = "End" <=> i = Len(tx'.records)
  <2> DEFINE rs == tx.records
  <2>1. /\ Len(rs) \in Nat /\ DOMAIN rs = 1..Len(rs)
        /\ Len(tx'.records) = Len(rs) + 1 /\ DOMAIN tx'.records = 1..(Len(rs) + 1)
        /\ \A i \in 1..Len(rs) : tx'.records[i] = rs[i]
        /\ tx'.records[Len(rs) + 1].tag = "End"
    BY <1>1, <1>2, AppendRecord, ProcessRecordFields DEF TxType
  <2>2. \A i \in 1..Len(rs) : rs[i].tag # "End"
    BY <1>1, <2>1 DEF Reading
  <2> HIDE DEF rs
  <2> SUFFICES ASSUME NEW i \in 1..(Len(rs) + 1)
               PROVE  tx'.records[i].tag = "End" <=> i = Len(rs) + 1
    BY <2>1
  <2>3. CASE i = Len(rs) + 1
    BY <2>1, <2>3
  <2>4. CASE i \in 1..Len(rs)
    BY <2>1, <2>2, <2>4
  <2> QED BY <2>1, <2>3, <2>4
<1> QED BY <1>1, <1>2, <1>3, <1>4, <1>5 DEF Whole

\* No other line touches the set (parser.go, 38-193).
LEMMA OnlyEndStores ==
  ASSUME NEW l \in Lines, ReadLine(l), ~End(l)
  PROVE  UNCHANGED txs
BY DEF ReadLine, SkipOuter, StartTransaction, BadTransaction, ReadBegin, MissingBegin,
       SkipShort, BadRecord, StoreRecord, DuplicateBegin, VCLCall, Status, Link,
       HeaderRecord, HeaderUnset

\* Every line keeps the set whole.
LEMMA StoredStep ==
  ASSUME TypeOK, TypeOK', Reading, StoredAreComplete, NEW l \in Lines, ReadLine(l)
  PROVE  StoredAreComplete'
<1>1. CASE End(l)
  <2> SUFFICES ASSUME NEW v \in DOMAIN txs'
               PROVE  txs'[v].vxid = v /\ Whole(txs'[v])
    BY DEF StoredAreComplete, Whole, FramedByBegin, ChildrenAreLinks
  <2>1. CASE v = tx.vxid
    BY <1>1, <2>1, EndStoresWhole
  <2>2. CASE v # tx.vxid
    <3>1. v \in DOMAIN txs /\ txs'[v] = txs[v]
      BY <1>1, <2>2, EndStoresWhole
    <3> QED BY <3>1 DEF StoredAreComplete
  <2> QED BY <2>1, <2>2
<1>2. CASE ~End(l)
  BY <1>2, OnlyEndStores DEF StoredAreComplete
<1> QED BY <1>1, <1>2

\* Parse only hands out whole transactions, for every log, however long, and
\* wherever it fails.
THEOREM StoredCompleteCorrect == Spec => []StoredAreComplete
<1> DEFINE IInv == TypeOK /\ Reading /\ StoredAreComplete
<1>1. Init => IInv
  BY InitType DEF Init, Reading, StoredAreComplete
<1>2. IInv /\ [Next]_vars => IInv'
  <2> SUFFICES ASSUME IInv, [Next]_vars PROVE IInv'
    OBVIOUS
  <2>1. TypeOK'
    BY NextType
  <2>2. ASSUME NEW l \in Lines, ReadLine(l) PROVE Reading' /\ StoredAreComplete'
    BY <2>1, <2>2, ReadingStep, StoredStep
  <2>3. CASE EndOfInput \/ ScanError
    <3>1. UNCHANGED txs /\ pc' \in {"done", "failed"}
      BY <2>3 DEF EndOfInput, ScanError
    <3> QED BY <2>1, <3>1 DEF Reading, StoredAreComplete
  <2>4. CASE UNCHANGED vars
    <3>1. UNCHANGED <<pc, txs, tx>>
      BY <2>4 DEF vars
    <3> QED BY <2>1, <3>1 DEF Reading, StoredAreComplete
  <2> QED BY <2>1, <2>2, <2>3, <2>4 DEF Next
<1> QED BY <1>1, <1>2, PTL DEF Spec

-----------------------------------------------------------------------------
(* Received values *)

\* Received values that are not touched are an initial part of themselves.
LEMMA StartsWithSelf ==
  ASSUME NEW S, NEW s \in Seq(S)
  PROVE  StartsWith(s, s)
BY LenProperties DEF StartsWith

\* Received values stay the initial part when the merge appends others to them
\* (parser.go, 369-374).
LEMMA StartsWithLonger ==
  ASSUME NEW S, NEW s \in Seq(S), NEW r \in Seq(S)
  PROVE  StartsWith(s \o r, s)
BY LenProperties, ConcatProperties DEF StartsWith

\* Headers.Add appends at most the one value to the received ones, and only in
\* state Received (header.go, 152-158).
LEMMA AddReceived ==
  ASSUME NEW h \in HeadersType, NEW name \in Spellings, NEW value \in Values,
         NEW state \in HdrState, NEW n \in Names
  PROVE  LET received == Add(h, name, value, state)[n].receivedValues
         IN  /\ StartsWith(received, h[n].receivedValues)
             /\ state # "Received" => received = h[n].receivedValues
<1> DEFINE was == h[n].receivedValues
           received == Add(h, name, value, state)[n].receivedValues
<1>1. was \in Seq(Values)
  BY DEF HeadersType, Header
<1>2. received = IF n = CanonicalHeaderName[name] /\ state = "Received"
                 THEN Append(was, value) ELSE was
  BY DEF Add, HeadersType
<1>3. StartsWith(was, was)
  BY <1>1, StartsWithSelf
<1>4. StartsWith(Append(was, value), was)
  BY <1>1, AppendProperties, LenProperties DEF StartsWith
<1> QED BY <1>2, <1>3, <1>4

\* Headers.Delete leaves the received values alone (header.go, 173-179).
LEMMA DeleteReceived ==
  ASSUME NEW h \in HeadersType, NEW name \in Spellings, NEW n \in Names
  PROVE  Delete(h, name)[n].receivedValues = h[n].receivedValues
<1>1. h[n] \in Header
  BY DEF HeadersType
<1>2. CASE n = CanonicalHeaderName[name]
  <2>1. Delete(h, name)[n] = [h[n] EXCEPT !.values = MarkDeleted(h[n].values)]
    BY <1>2 DEF Delete, HeadersType
  <2> QED BY <1>1, <2>1 DEF Header
<1>3. CASE n # CanonicalHeaderName[name]
  BY <1>3 DEF Delete, HeadersType
<1> QED BY <1>2, <1>3

\* mergeTempHeaders adds received values after those that are there (parser.go, 369-375).
LEMMA MergeKeepsReceived ==
  ASSUME NEW h \in HeadersType, NEW temp \in HeadersType, NEW n \in Names
  PROVE  StartsWith(MergeTempHeaders(h, temp)[n].receivedValues, h[n].receivedValues)
<1>1. h[n].receivedValues \in Seq(Values) /\ temp[n].receivedValues \in Seq(Values)
  BY DEF HeadersType, Header
<1>2. \/ MergeTempHeaders(h, temp)[n].receivedValues = h[n].receivedValues
      \/ MergeTempHeaders(h, temp)[n].receivedValues
           = h[n].receivedValues \o temp[n].receivedValues
  BY DEF MergeTempHeaders
<1> QED BY <1>1, <1>2, StartsWithSelf, StartsWithLonger

\* One record leaves the received values of one map as they were, or longer
\* while received headers are read (parser.go, 103-195).
LEMMA ReceivedGrowOnRead ==
  ASSUME TypeOK, pc = "inner", NEW l \in Lines, ReadLine(l)
  PROVE  /\ ReceivedOnlyGrow(tx.reqHeaders, tx'.reqHeaders)
         /\ ReceivedOnlyGrow(tx.respHeaders, tx'.respHeaders)
<1> DEFINE t == WithRecord(tx, l)
<1>t. /\ tx \in TxType /\ t \in TxType
      /\ t.reqHeaders = tx.reqHeaders /\ t.respHeaders = tx.respHeaders
      /\ tx.reqHeaders \in HeadersType /\ tx.respHeaders \in HeadersType
      /\ tempHeaders \in HeadersType
  BY WithRecordType DEF TypeOK, TxType, WithRecord
<1>s. \A h \in HeadersType : ReceivedOnlyGrow(h, h)
  BY StartsWithSelf DEF ReceivedOnlyGrow, HeadersType, Header
<1>w. \A h : /\ [t EXCEPT !.reqHeaders = h].reqHeaders = h
             /\ [t EXCEPT !.reqHeaders = h].respHeaders = t.respHeaders
             /\ [t EXCEPT !.respHeaders = h].respHeaders = h
             /\ [t EXCEPT !.respHeaders = h].reqHeaders = t.reqHeaders
  BY <1>t DEF TxType
<1>p. ASSUME NEW h \in HeadersType, ReceivedOnlyGrow(HeadersOf(tx, l.tag), h)
      PROVE  /\ ReceivedOnlyGrow(tx.reqHeaders, WithHeaders(t, l.tag, h).reqHeaders)
             /\ ReceivedOnlyGrow(tx.respHeaders, WithHeaders(t, l.tag, h).respHeaders)
  BY <1>t, <1>s, <1>w, <1>p DEF WithHeaders, HeadersOf
<1> HIDE DEF t
<1>1. CASE SkipShort(l) \/ BadRecord(l)
  BY <1>1, <1>s, <1>t DEF SkipShort, BadRecord
<1>2. CASE StoreRecord(l) \/ DuplicateBegin(l) \/ Status(l) \/ End(l)
  <2>1. tx' = t
    BY <1>2 DEF StoreRecord, DuplicateBegin, Status, End, t
  <2> QED BY <1>s, <1>t, <2>1
<1>3. CASE Link(l)
  <2>1. tx'.reqHeaders = tx.reqHeaders /\ tx'.respHeaders = tx.respHeaders
    BY <1>3, <1>t DEF Link, t, TxType
  <2> QED BY <1>s, <1>t, <2>1
<1>4. CASE VCLCall(l)
  <2>1. CASE ~clientHeaders \/ lastHeader = "none"
    <3>1. tx' = t
      BY <1>4, <2>1 DEF VCLCall, t
    <3> QED BY <1>s, <1>t, <3>1
  <2>2. ASSUME clientHeaders, NEW h \in HeadersType
        PROVE  ReceivedOnlyGrow(h, MergeTempHeaders(h, tempHeaders))
    BY <1>t, <2>2, MergeKeepsReceived DEF ReceivedOnlyGrow
  <2>3. CASE clientHeaders /\ lastHeader = "resp"
    <3>1. tx' = [t EXCEPT !.respHeaders = MergeTempHeaders(t.respHeaders, tempHeaders)]
      BY <1>4, <2>3 DEF VCLCall, t
    <3> QED BY <1>s, <1>t, <1>w, <2>2, <2>3, <3>1
  <2>4. CASE clientHeaders /\ lastHeader = "req"
    <3>1. tx' = [t EXCEPT !.reqHeaders = MergeTempHeaders(t.reqHeaders, tempHeaders)]
      BY <1>4, <2>4 DEF VCLCall, t
    <3> QED BY <1>s, <1>t, <1>w, <2>2, <2>4, <3>1
  <2> QED BY <2>1, <2>3, <2>4 DEF TypeOK
<1>5. CASE HeaderRecord(l)
  <2> DEFINE h == HeadersOf(tx, l.tag)
             g == IF clientHeaders THEN Add(h, l.name, l.value, "Received")
                  ELSE AddProcessedHeaders(h, l.name, l.value)
  <2>1. l.name \in Spellings /\ l.value \in Values
    BY <1>5, ProcessRecordType DEF HeaderRecord
  <2>2. h \in HeadersType
    BY <1>t DEF HeadersOf
  <2>3. g \in HeadersType
    BY <2>1, <2>2, AddType, AddProcessedHeadersType DEF HdrState
  <2>4. ReceivedOnlyGrow(h, g)
    <3> SUFFICES ASSUME NEW n \in Names
                 PROVE  /\ StartsWith(g[n].receivedValues, h[n].receivedValues)
                        /\ ~clientHeaders => g[n].receivedValues = h[n].receivedValues
      BY DEF ReceivedOnlyGrow
    <3> HIDE DEF h
    <3>1. CASE clientHeaders
      BY <2>1, <2>2, <3>1, AddReceived DEF HdrState
    <3>2. CASE ~clientHeaders
      <4>1. PICK state \in {"Added", "Modified"} : g = Add(h, l.name, l.value, state)
        BY <3>2 DEF AddProcessedHeaders
      <4> HIDE DEF g
      <4> QED BY <2>1, <2>2, <4>1, AddReceived DEF HdrState
    <3> QED BY <3>1, <3>2
  <2>5. tx' = t \/ tx' = WithHeaders(t, l.tag, g)
    BY <1>5 DEF HeaderRecord, t
  <2> HIDE DEF g
  <2> QED BY <1>s, <1>t, <1>p, <2>3, <2>4, <2>5
<1>6. CASE HeaderUnset(l)
  <2> DEFINE h == HeadersOf(tx, l.tag)
             g == Delete(h, l.name)
  <2>1. l.name \in Spellings
    BY <1>6, ProcessRecordType DEF HeaderUnset
  <2>2. h \in HeadersType
    BY <1>t DEF HeadersOf
  <2>3. g \in HeadersType
    BY <2>1, <2>2, DeleteType
  <2>4. ReceivedOnlyGrow(h, g)
    BY <2>1, <2>2, DeleteReceived, StartsWithSelf DEF ReceivedOnlyGrow, HeadersType, Header
  <2>5. tx' = WithHeaders(t, l.tag, g)
    BY <1>6 DEF HeaderUnset, t
  <2> HIDE DEF g
  <2> QED BY <1>p, <2>3, <2>4, <2>5
<1>7. CASE SkipOuter(l) \/ StartTransaction(l) \/ BadTransaction(l) \/ ReadBegin(l)
           \/ MissingBegin(l)
  BY <1>7 DEF SkipOuter, StartTransaction, BadTransaction, ReadBegin, MissingBegin, Scan
<1> QED BY <1>1, <1>2, <1>3, <1>4, <1>5, <1>6, <1>7 DEF ReadLine

\* Received values are immutable while a transaction is read, for every log: no
\* record changes or removes one, and while VCL runs none is added.
THEOREM ReceivedImmutableCorrect == Spec => ReceivedAreImmutable
<1> DEFINE Kept == pc = "inner" =>
                     /\ ReceivedOnlyGrow(tx.reqHeaders, tx'.reqHeaders)
                     /\ ReceivedOnlyGrow(tx.respHeaders, tx'.respHeaders)
<1>1. TypeOK /\ [Next]_vars => [Kept]_vars
  <2> SUFFICES ASSUME TypeOK, Next PROVE Kept
    OBVIOUS
  <2>1. ASSUME NEW l \in Lines, ReadLine(l) PROVE Kept
    BY <2>1, ReceivedGrowOnRead
  <2>2. CASE EndOfInput \/ ScanError
    <3>1. /\ tx' = tx
          /\ tx.reqHeaders \in HeadersType /\ tx.respHeaders \in HeadersType
      BY <2>2 DEF EndOfInput, ScanError, TypeOK, TxType
    <3> QED BY <3>1, StartsWithSelf DEF ReceivedOnlyGrow, HeadersType, Header
  <2> QED BY <2>1, <2>2 DEF Next
<1>2. Spec => []TypeOK
  BY TypeCorrect
<1> QED BY <1>1, <1>2, PTL DEF Spec, ReceivedAreImmutable

-----------------------------------------------------------------------------
(* The abstract parser *)

\* What is known while a log is read: the types, and that the transaction that is
\* read is one so far (parser.go, 31-223).
LEMMA ReadingCorrect == Spec => [](TypeOK /\ Reading)
<1>1. Init => TypeOK /\ Reading
  BY InitType DEF Init, Reading
<1>2. TypeOK /\ Reading /\ [Next]_vars => (TypeOK /\ Reading)'
  <2> SUFFICES ASSUME TypeOK, Reading, [Next]_vars PROVE Reading'
    BY NextType
  <2>1. ASSUME NEW l \in Lines, ReadLine(l) PROVE Reading'
    BY <2>1, NextType, ReadingStep
  <2>2. CASE EndOfInput \/ ScanError
    BY <2>2 DEF EndOfInput, ScanError, Reading
  <2>3. CASE UNCHANGED vars
    BY <2>3 DEF vars, Reading
  <2> QED BY <2>1, <2>2, <2>3 DEF Next
<1> QED BY <1>1, <1>2, PTL DEF Spec

\* The steps of Parse that keep what ParsedLog sees (parser.go, 38-45, 71-193).
Unseen(l) ==
  \/ SkipOuter(l) \/ ReadBegin(l) \/ SkipShort(l) \/ StoreRecord(l) \/ VCLCall(l)
  \/ Status(l) \/ Link(l) \/ HeaderRecord(l) \/ HeaderUnset(l)

LEMMA UnseenKeeps ==
  ASSUME TypeOK, NEW l \in Lines, Unseen(l)
  PROVE  UNCHANGED Parsed!vars
<1>1. CASE SkipOuter(l) \/ SkipShort(l)
  BY <1>1 DEF SkipOuter, SkipShort, Parsed!vars
<1>2. CASE ReadBegin(l)
  <2>1. tx'.vxid = tx.vxid
    BY <1>2, WithRecordType DEF ReadBegin, TypeOK, TxType
  <2> QED BY <1>2, <2>1 DEF ReadBegin, Scan, Parsed!vars
<1>3. CASE StoreRecord(l) \/ VCLCall(l) \/ Status(l) \/ HeaderRecord(l) \/ HeaderUnset(l)
  <2>1. tx'.vxid = tx.vxid
    BY <1>3, RecordRead
  <2>2. UNCHANGED <<pc, txs>>
    BY <1>3 DEF StoreRecord, VCLCall, Status, HeaderRecord, HeaderUnset
  <2> QED BY <2>1, <2>2 DEF Parsed!vars
<1>4. CASE Link(l)
  <2>1. tx'.vxid = tx.vxid
    BY <1>4, WithRecordType DEF Link, TypeOK, TxType
  <2> QED BY <1>4, <2>1 DEF Link, Parsed!vars
<1> QED BY <1>1, <1>2, <1>3, <1>4 DEF Unseen

\* Every step of Parse is one of ParsedLog or keeps what ParsedLog sees.
LEMMA ParsedStep ==
  ASSUME TypeOK, TypeOK', Reading, [Next]_vars
  PROVE  [Parsed!Next]_(Parsed!vars)
<1>1. ASSUME NEW l \in Lines, StartTransaction(l)
      PROVE  Parsed!Start(l.vxid) /\ l.vxid \in VXIDs
  <2>1. tx'.vxid = l.vxid /\ l.vxid \in VXIDs
    BY <1>1, ProcessRecordType DEF StartTransaction, NewTransaction
  <2> QED BY <1>1, <2>1 DEF StartTransaction, Scan, Parsed!Start
<1>2. ASSUME NEW l \in Lines,
             BadTransaction(l) \/ MissingBegin(l) \/ BadRecord(l) \/ DuplicateBegin(l)
      PROVE  Parsed!Fail
  BY <1>2 DEF BadTransaction, MissingBegin, BadRecord, DuplicateBegin, Scan, Parsed!Fail
<1>3. ASSUME NEW l \in Lines, End(l)
      PROVE  Parsed!Store(tx.vxid) /\ tx.vxid \in VXIDs
  <2>1. /\ pc = "inner" /\ pc' = "outer"
        /\ tx.vxid \in VXIDs /\ tx'.vxid = tx.vxid /\ Whole(tx')
        /\ txs' = [v \in DOMAIN txs \cup {tx.vxid} |-> IF v = tx.vxid THEN tx' ELSE txs[v]]
    BY <1>3, EndStoresWhole
  <2>2. tx.vxid \in DOMAIN txs' /\ txs'[tx.vxid] = tx'
    BY <2>1
  <2> QED BY <2>1, <2>2 DEF Parsed!Store
<1>4. CASE EndOfInput
  BY <1>4 DEF EndOfInput, Parsed!Next, Parsed!Succeed, Parsed!Fail
<1>5. CASE ScanError
  BY <1>5 DEF ScanError, Parsed!Next, Parsed!Fail
<1>6. CASE UNCHANGED vars
  BY <1>6 DEF vars, Parsed!vars
<1>7. ASSUME NEW l \in Lines, ReadLine(l)
      PROVE  [Parsed!Next]_(Parsed!vars)
  <2>1. CASE Unseen(l)
    BY <2>1, UnseenKeeps
  <2>2. CASE StartTransaction(l)
    BY <1>1, <2>2 DEF Parsed!Next
  <2>3. CASE BadTransaction(l) \/ MissingBegin(l) \/ BadRecord(l) \/ DuplicateBegin(l)
    BY <1>2, <2>3 DEF Parsed!Next
  <2>4. CASE End(l)
    BY <1>3, <2>4 DEF Parsed!Next
  <2> QED BY <1>7, <2>1, <2>2, <2>3, <2>4 DEF ReadLine, Unseen
<1> QED BY <1>4, <1>5, <1>6, <1>7 DEF Next

\* Parse implements ParsedLog: whatever the log, only whole transactions are stored,
\* one after the other, none is taken away or touched afterwards, and Parse only
\* succeeds between two of them (parser.go, 31-223).
THEOREM ParserImplementsParsedLog == Spec => ImplementsParsedLog
<1>1. Init => Parsed!Init
  BY DEF Init, Parsed!Init
<1>2. TypeOK /\ TypeOK' /\ Reading /\ [Next]_vars => [Parsed!Next]_(Parsed!vars)
  BY ParsedStep
<1> QED BY <1>1, <1>2, ReadingCorrect, PTL DEF Spec, Parsed!Spec, ImplementsParsedLog

\* Only an End record puts a transaction into the set, under a new VXID or an old one:
\* it completes the transaction that is read, and no other changes (parser.go, 199-204).
THEOREM StoredOnlyByEndCorrect == Spec => StoredOnlyByEnd
<1> DEFINE ByEnd(v) == /\ pc = "inner" /\ v = tx.vxid
                       /\ Len(txs'[v].records) = Len(tx.records) + 1
                       /\ txs'[v].records[Len(txs'[v].records)].tag = "End"
                       /\ Whole(txs'[v])
           Stored == /\ DOMAIN txs \subseteq DOMAIN txs'
                     /\ \A v \in DOMAIN txs' : \/ v \in DOMAIN txs /\ txs'[v] = txs[v]
                                               \/ ByEnd(v)
<1>1. TypeOK /\ TypeOK' /\ Reading /\ [Next]_vars => Stored
  <2> SUFFICES ASSUME TypeOK, TypeOK', Reading, [Next]_vars
               PROVE  Stored
    OBVIOUS
  <2>1. ASSUME NEW l \in Lines, End(l)
        PROVE  Stored
    <3>1. /\ pc = "inner" /\ Whole(tx')
          /\ txs' = [v \in DOMAIN txs \cup {tx.vxid} |-> IF v = tx.vxid THEN tx' ELSE txs[v]]
      BY <2>1, EndStoresWhole
    <3>2. /\ Len(tx'.records) = Len(tx.records) + 1
          /\ tx'.records[Len(tx'.records)].tag = "End"
      <4>1. l.tag = "End" /\ tx \in TxType
        BY <2>1 DEF End, Scan, TypeOK
      <4>2. tx'.records = Append(tx.records, ProcessRecord(l))
        BY <2>1, RecordRead
      <4> QED BY <4>1, <4>2, AppendRecord, ProcessRecordFields DEF TxType
    <3>3. DOMAIN txs' = DOMAIN txs \cup {tx.vxid}
      BY <3>1
    <3>4. ASSUME NEW v \in DOMAIN txs', v # tx.vxid
          PROVE  v \in DOMAIN txs /\ txs'[v] = txs[v]
      BY <3>1, <3>3, <3>4
    <3>5. txs'[tx.vxid] = tx'
      BY <3>1
    <3>6. ByEnd(tx.vxid)
      BY <3>1, <3>2, <3>5
    <3> QED BY <3>3, <3>4, <3>6
  <2>2. ASSUME NEW l \in Lines, ReadLine(l), ~End(l)
        PROVE  UNCHANGED txs
    BY <2>2, OnlyEndStores
  <2>3. CASE EndOfInput \/ ScanError \/ UNCHANGED vars
    BY <2>3 DEF EndOfInput, ScanError, vars
  <2> QED BY <2>1, <2>2, <2>3 DEF Next
<1> QED BY <1>1, ReadingCorrect, PTL DEF Spec, StoredOnlyByEnd

-----------------------------------------------------------------------------
(* The values of a header *)

\* The deleted values are the first NDeleted ones.
LEMMA DeletedFirst ==
  ASSUME NEW values \in Seq(HdrValue), WellFormedValues(values)
  PROVE  /\ NDeleted(values) \in 0..Len(values)
         /\ \A i \in 1..Len(values) : values[i].state = "Deleted" <=> i <= NDeleted(values)
<1> DEFINE D == {i \in DOMAIN values : values[i].state = "Deleted"}
<1>1. DOMAIN values = 1..Len(values) /\ Len(values) \in Nat
  BY LenProperties
<1>2. IsFiniteSet(1..Len(values)) /\ Cardinality(1..Len(values)) = Len(values)
  BY <1>1, FS_Interval
<1>3. IsFiniteSet(D) /\ Cardinality(D) \in Nat /\ Cardinality(D) <= Len(values)
  BY <1>1, <1>2, FS_Subset, FS_CardinalityType
<1>4. ASSUME NEW i \in 1..Len(values), values[i].state = "Deleted"
      PROVE  i <= Cardinality(D)
  <2>1. 1..i \in SUBSET D
    BY <1>1, <1>4 DEF WellFormedValues
  <2>2. Cardinality(1..i) = i
    BY FS_Interval
  <2>3. Cardinality(1..i) <= Cardinality(D)
    BY <1>3, <2>1, FS_Subset
  <2> QED BY <2>2, <2>3
<1>5. ASSUME NEW i \in 1..Len(values), values[i].state # "Deleted"
      PROVE  ~(i <= Cardinality(D))
  <2>1. D \in SUBSET (1..(i - 1))
    BY <1>1, <1>5 DEF WellFormedValues
  <2>2. IsFiniteSet(1..(i - 1)) /\ Cardinality(1..(i - 1)) = i - 1
    BY FS_Interval
  <2>3. Cardinality(D) <= i - 1
    BY <2>1, <2>2, FS_Subset
  <2> QED BY <1>3, <2>3
<1> HIDE DEF D
<1>6. NDeleted(values) = Cardinality(D)
  BY DEF NDeleted, D
<1> QED BY <1>1, <1>3, <1>4, <1>5, <1>6

\* No value is left that is deleted, and a modified one only in the first place.
LEMMA LiveElements ==
  ASSUME NEW values \in Seq(HdrValue), WellFormedValues(values)
  PROVE  /\ Live(values) \in Seq(HdrValue)
         /\ \A i \in 1..Len(Live(values)) :
              /\ Live(values)[i].state # "Deleted"
              /\ Live(values)[i].state = "Modified" => i = 1
<1> DEFINE d == NDeleted(values)
<1>1. d \in 0..Len(values) /\ Len(values) \in Nat
  BY DeletedFirst, LenProperties
<1>2. \A i \in 1..Len(values) : values[i].state = "Deleted" <=> i <= d
  BY DeletedFirst
<1>3. Live(values) \in Seq(HdrValue)
  BY LiveType
<1> HIDE DEF d
<1>4. Live(values) = SubSeq(values, d + 1, Len(values))
  BY DEF Live, d
<1>5. /\ Len(Live(values)) = Len(values) - d
      /\ \A i \in 1..(Len(values) - d) : Live(values)[i] = values[d + i]
  BY <1>1, <1>4, SubSeqProperties
<1>6. ASSUME NEW i \in 1..Len(Live(values))
      PROVE  /\ Live(values)[i].state # "Deleted"
             /\ Live(values)[i].state = "Modified" => i = 1
  <2>1. d + i \in 1..Len(values) /\ ~(d + i <= d) /\ Live(values)[i] = values[d + i]
    BY <1>1, <1>5, <1>6
  <2>2. values[d + i].state # "Deleted"
    BY <1>2, <2>1
  <2>3. values[d + i].state = "Modified" => d + i = 1
    BY <2>1, LenProperties DEF WellFormedValues
  <2>4. d + i = 1 => i = 1
    BY <1>1
  <2> QED BY <2>1, <2>2, <2>3, <2>4
<1> QED BY <1>3, <1>6

\* Headers.Delete: all values are deleted (header.go, 173-177).
LEMMA MarkDeletedWellFormed ==
  ASSUME NEW values \in Seq(HdrValue)
  PROVE  WellFormedValues(MarkDeleted(values))
<1>1. DOMAIN MarkDeleted(values) = DOMAIN values
      /\ \A i \in DOMAIN values : MarkDeleted(values)[i].state = "Deleted"
  BY DEF MarkDeleted
<1> QED BY <1>1 DEF WellFormedValues

\* Headers.Add: a value that is not deleted goes behind the others, a modified one
\* is alone (header.go, 139-158).
LEMMA AppendWellFormed ==
  ASSUME NEW values \in Seq(HdrValue), WellFormedValues(values),
         NEW v \in HdrValue, v.state # "Deleted", v.state = "Modified" => values = <<>>
  PROVE  WellFormedValues(Append(values, v))
<1>1. /\ Len(values) \in Nat /\ DOMAIN values = 1..Len(values)
      /\ DOMAIN Append(values, v) = 1..(Len(values) + 1)
      /\ \A i \in 1..Len(values) : Append(values, v)[i] = values[i]
      /\ Append(values, v)[Len(values) + 1] = v
  BY LenProperties, AppendProperties
<1>2. values = <<>> => Len(values) = 0
  OBVIOUS
<1> HIDE DEF HdrValue
<1>3. ASSUME NEW i \in 1..(Len(values) + 1), NEW j \in 1..(Len(values) + 1),
             i < j, Append(values, v)[j].state = "Deleted"
      PROVE  Append(values, v)[i].state = "Deleted"
  <2>1. j \in 1..Len(values) /\ i \in 1..Len(values)
    BY <1>1, <1>3
  <2> QED BY <1>1, <1>3, <2>1 DEF WellFormedValues
<1>4. ASSUME NEW i \in 1..(Len(values) + 1), Append(values, v)[i].state = "Modified"
      PROVE  i = 1
  <2>1. CASE i \in 1..Len(values)
    BY <1>1, <1>4, <2>1 DEF WellFormedValues
  <2>2. CASE i = Len(values) + 1
    BY <1>1, <1>2, <1>4, <2>2
  <2> QED BY <1>1, <2>1, <2>2
<1> QED BY <1>1, <1>3, <1>4 DEF WellFormedValues

\* The same for several values, none of which is deleted or modified.
LEMMA ConcatWellFormed ==
  ASSUME NEW s \in Seq(HdrValue), WellFormedValues(s), NEW t \in Seq(HdrValue),
         \A i \in 1..Len(t) : t[i].state \notin {"Deleted", "Modified"}
  PROVE  WellFormedValues(s \o t)
<1>1. /\ Len(s) \in Nat /\ Len(t) \in Nat /\ DOMAIN s = 1..Len(s)
      /\ DOMAIN (s \o t) = 1..(Len(s) + Len(t))
      /\ \A i \in 1..(Len(s) + Len(t)) :
           (s \o t)[i] = IF i <= Len(s) THEN s[i] ELSE t[i - Len(s)]
  BY ConcatProperties, LenProperties
<1>2. ASSUME NEW i \in 1..(Len(s) + Len(t)), (s \o t)[i].state \in {"Deleted", "Modified"}
      PROVE  i \in 1..Len(s) /\ (s \o t)[i] = s[i]
  <2>1. CASE i <= Len(s)
    BY <1>1, <2>1
  <2>2. CASE ~(i <= Len(s))
    <3>1. i - Len(s) \in 1..Len(t) /\ (s \o t)[i] = t[i - Len(s)]
      BY <1>1, <2>2
    <3> QED BY <1>2, <3>1
  <2> QED BY <2>1, <2>2
<1>3. ASSUME NEW i \in 1..(Len(s) + Len(t)), NEW j \in 1..(Len(s) + Len(t)),
             i < j, (s \o t)[j].state = "Deleted"
      PROVE  (s \o t)[i].state = "Deleted"
  <2>1. j \in 1..Len(s) /\ s[j].state = "Deleted"
    BY <1>2, <1>3
  <2>2. i \in 1..Len(s) /\ (s \o t)[i] = s[i]
    BY <1>1, <1>3, <2>1
  <2> QED BY <1>1, <1>3, <2>1, <2>2 DEF WellFormedValues
<1>4. ASSUME NEW i \in 1..(Len(s) + Len(t)), (s \o t)[i].state = "Modified"
      PROVE  i = 1
  BY <1>1, <1>2, <1>4 DEF WellFormedValues
<1> QED BY <1>1, <1>3, <1>4 DEF WellFormedValues

\* mergeTempHeaders: the values of a header are well formed again, and some are there
\* if there were some in the transaction, or some to merge (parser.go, 353-387).
LEMMA MergedValuesWellFormed ==
  ASSUME NEW values \in Seq(HdrValue), WellFormedValues(values),
         NEW temp \in Header, WellFormedValues(temp.values)
  PROVE  /\ WellFormedValues(MergedValues(values, temp))
         /\ values # <<>> \/ temp.receivedValues # <<>> \/ Live(temp.values) # <<>>
              => MergedValues(values, temp) # <<>>
<1> DEFINE received == [i \in DOMAIN temp.receivedValues |->
                          [value |-> temp.receivedValues[i], state |-> "Received"]]
           base == values \o received
           kept == Live(temp.values)
<1>1. temp.receivedValues \in Seq(Values) /\ temp.values \in Seq(HdrValue)
  BY DEF Header
<1>2. /\ received \in Seq(HdrValue) /\ Len(received) = Len(temp.receivedValues)
      /\ \A i \in 1..Len(received) : received[i].state \notin {"Deleted", "Modified"}
  <2>1. DOMAIN temp.receivedValues = 1..Len(temp.receivedValues)
        /\ Len(temp.receivedValues) \in Nat
    BY <1>1, LenProperties
  <2>2. \A i \in DOMAIN temp.receivedValues :
          [value |-> temp.receivedValues[i], state |-> "Received"] \in HdrValue
    BY <1>1, ElementOfSeq DEF HdrValue, HdrState
  <2>3. received \in Seq(HdrValue)
    BY <2>1, <2>2, IsASeq
  <2>4. Len(received) = Len(temp.receivedValues)
    BY <2>1, <2>3, LenProperties
  <2> QED BY <2>1, <2>3, <2>4
<1>3. base \in Seq(HdrValue) /\ WellFormedValues(base) /\ Len(base) = Len(values) + Len(received)
  BY <1>2, ConcatProperties, ConcatWellFormed
<1>4. /\ MarkDeleted(base) \in Seq(HdrValue) /\ WellFormedValues(MarkDeleted(base))
      /\ Len(MarkDeleted(base)) = Len(base)
  BY <1>3, MarkDeletedType, MarkDeletedWellFormed
<1>5. /\ kept \in Seq(HdrValue)
      /\ \A i \in 1..Len(kept) : /\ kept[i].state # "Deleted"
                                 /\ kept[i].state = "Modified" => i = 1
  BY <1>1, LiveElements
<1> DEFINE marked == IF NDeleted(temp.values) > 0 THEN MarkDeleted(base) ELSE base
<1>6. marked \in Seq(HdrValue) /\ WellFormedValues(marked) /\ Len(marked) = Len(base)
  BY <1>3, <1>4
<1>7. MergedValues(values, temp) = IF kept # <<>> /\ kept[1].state = "Modified" THEN kept
                                   ELSE marked \o kept
  BY DEF MergedValues
<1>8. /\ Len(values) \in Nat /\ Len(received) \in Nat /\ Len(kept) \in Nat
      /\ values # <<>> => Len(values) > 0
      /\ temp.receivedValues # <<>> => Len(received) > 0
      /\ kept # <<>> => Len(kept) > 0
  BY <1>1, <1>2, <1>5, EmptySeq, LenProperties
<1> HIDE DEF received, base, kept, marked
<1>9. CASE kept # <<>> /\ kept[1].state = "Modified"
  <2>1. DOMAIN kept = 1..Len(kept)
    BY <1>5, LenProperties
  <2>2. WellFormedValues(kept)
    BY <1>5, <2>1 DEF WellFormedValues
  <2> QED BY <1>7, <1>9, <2>2
<1>10. CASE ~(kept # <<>> /\ kept[1].state = "Modified")
  <2>1. \A i \in 1..Len(kept) : kept[i].state \notin {"Deleted", "Modified"}
    BY <1>5, <1>8, <1>10
  <2>2. WellFormedValues(marked \o kept)
    BY <1>5, <1>6, <2>1, ConcatWellFormed
  <2>3. Len(marked \o kept) = Len(values) + Len(received) + Len(kept)
    <3>1. Len(marked \o kept) = Len(marked) + Len(kept)
      BY <1>5, <1>6, ConcatProperties
    <3> QED BY <1>3, <1>6, <3>1
  <2>4. values # <<>> \/ temp.receivedValues # <<>> \/ kept # <<>> => marked \o kept # <<>>
    <3>1. marked \o kept = <<>> => Len(marked \o kept) = 0
      OBVIOUS
    <3>2. Len(values) + Len(received) + Len(kept) = 0
            => Len(values) = 0 /\ Len(received) = 0 /\ Len(kept) = 0
      BY <1>8
    <3> QED BY <1>8, <2>3, <3>1, <3>2
  <2> QED BY <1>7, <1>10, <2>2, <2>4 DEF kept
<1> QED BY <1>9, <1>10

-----------------------------------------------------------------------------
(* The ids of a header map *)

Enumerated(h) == {h[n].id : n \in Present(h)} = 1..Cardinality(Present(h))

\* Ids that run from 1 to n without a gap are those of n headers: none comes twice
\* (header.go, 123-137).
LEMMA IdsDiffer ==
  ASSUME NEW h \in HeadersType, Enumerated(h)
  PROVE  \A m, n \in Present(h) : h[m].id = h[n].id => m = n
<1> DEFINE S == Present(h)
           f == [n \in S |-> h[n].id]
<1>1. IsFiniteSet(S) /\ Cardinality(S) \in Nat
  BY CardinalityPresent DEF Present
<1>2. IsFiniteSet(1..Cardinality(S)) /\ Cardinality(1..Cardinality(S)) = Cardinality(S)
  BY <1>1, FS_Interval
<1>3. {h[n].id : n \in S} = 1..Cardinality(S)
  BY DEF Enumerated
<1> HIDE DEF S
<1>4. f \in Surjection(S, 1..Cardinality(S))
  <2>1. f \in [S -> 1..Cardinality(S)]
    BY <1>3
  <2>2. \A i \in 1..Cardinality(S) : \E n \in S : f[n] = i
    BY <1>3
  <2> HIDE DEF f
  <2> QED BY <2>1, <2>2 DEF Surjection
<1>5. f \in Injection(S, 1..Cardinality(S))
  <2> HIDE DEF f
  <2> QED BY <1>1, <1>2, <1>4, FS_Surjection
<1>6. \A m, n \in S : f[m] = f[n] => m = n
  <2> HIDE DEF f
  <2> QED BY <1>5 DEF Injection, IsInjective
<1> QED BY <1>6 DEF S

\* The rank of the elements of a finite set by a number of their own: every rank
\* from 1 to the number of elements is there (GetSortedHeaders, header.go, 233-250).
LEMMA RanksAreEnumerated ==
  ASSUME NEW new, IsFiniteSet(new), NEW key, \A n \in new : key[n] \in Nat,
         \A m, n \in new : key[m] = key[n] => m = n
  PROVE  {Cardinality({m \in new : key[m] <= key[n]}) : n \in new} = 1..Cardinality(new)
<1> DEFINE upTo(n) == {m \in new : key[m] <= key[n]}
           rank == [n \in new |-> Cardinality(upTo(n))]
           T == 1..Cardinality(new)
<1>1. Cardinality(new) \in Nat
  BY FS_CardinalityType
<1>2. IsFiniteSet(T) /\ Cardinality(T) = Cardinality(new)
  BY <1>1, FS_Interval
<1>3. \A n \in new : /\ upTo(n) \in SUBSET new /\ IsFiniteSet(upTo(n))
                     /\ Cardinality(upTo(n)) \in T
  <2> SUFFICES ASSUME NEW n \in new
               PROVE  /\ upTo(n) \in SUBSET new /\ IsFiniteSet(upTo(n))
                      /\ Cardinality(upTo(n)) \in T
    OBVIOUS
  <2>1. /\ upTo(n) \in SUBSET new /\ IsFiniteSet(upTo(n))
        /\ Cardinality(upTo(n)) \in Nat /\ Cardinality(upTo(n)) <= Cardinality(new)
    BY FS_Subset, FS_CardinalityType
  <2>2. {n} \in SUBSET upTo(n)
    OBVIOUS
  <2>3. Cardinality({n}) <= Cardinality(upTo(n)) /\ Cardinality({n}) = 1
    BY <2>1, <2>2, FS_Subset, FS_Singleton
  <2> HIDE DEF upTo
  <2> QED BY <1>1, <2>1, <2>3
<1>4. ASSUME NEW m \in new, NEW n \in new, key[m] < key[n]
      PROVE  Cardinality(upTo(m)) # Cardinality(upTo(n))
  <2>1. upTo(m) \in SUBSET upTo(n)
    BY <1>4
  <2>2. n \in upTo(n) /\ n \notin upTo(m)
    BY <1>4
  <2> HIDE DEF upTo
  <2> QED BY <1>3, <2>1, <2>2, FS_Subset
<1> HIDE DEF upTo
<1>5. rank \in Injection(new, T)
  <2>1. rank \in [new -> T]
    BY <1>3
  <2>2. \A m, n \in new : rank[m] = rank[n] => m = n
    BY <1>4
  <2> HIDE DEF rank, T
  <2> QED BY <2>1, <2>2 DEF Injection, IsInjective
<1>6. rank \in Surjection(new, T)
  <2> HIDE DEF rank, T
  <2> QED BY <1>2, <1>5, FS_Injection
<1>7. T = {rank[n] : n \in new}
  <2> HIDE DEF rank, T
  <2> QED BY <1>6 DEF Surjection
<1> QED BY <1>7 DEF upTo

-----------------------------------------------------------------------------
(* The operations on a header map *)

Good(h) == h \in HeadersType /\ HeadersWellFormed(h)

\* The parts of a header that is in the map.
LEMMA GoodHeader ==
  ASSUME NEW h, Good(h), NEW n \in Names
  PROVE  /\ h[n] \in Header /\ h[n].values \in Seq(HdrValue) /\ WellFormedValues(h[n].values)
         /\ n \in Present(h) <=> h[n].id # 0
         /\ n \in Present(h) <=> h[n].values # <<>>
BY DEF Good, HeadersType, Header, HeadersWellFormed, Present

\* make(map[string]Header) and Clear (header.go, 226-231).
LEMMA NoHeadersGood == Good(NoHeaders)
<1>1. Present(NoHeaders) = {} /\ \A n \in Names : NoHeaders[n].values = <<>>
  BY DEF Present, NoHeaders, NoHeader
<1>2. WellFormedValues(<<>>)
  BY DEF WellFormedValues
<1>3. Cardinality({}) = 0
  BY FS_EmptySet
<1>4. {NoHeaders[n].id : n \in Present(NoHeaders)} = 1..Cardinality(Present(NoHeaders))
  BY <1>1, <1>3
<1> QED BY <1>1, <1>2, <1>4, NoHeadersType DEF Good, HeadersWellFormed

\* Headers.Add, with any state it is called with (header.go, 117-161).
LEMMA AddGood ==
  ASSUME NEW h, Good(h), NEW name \in Spellings, NEW value \in Values,
         NEW state \in HdrState, state # "Deleted"
  PROVE  Good(Add(h, name, value, state))
<1> DEFINE c == CanonicalHeaderName[name]
           g == Add(h, name, value, state)
           kept == IF state = "Modified" \/ c = HdrNameHost THEN <<>> ELSE h[c].values
           v == [value |-> value, state |-> state]
           id == IF h[c].id = 0 THEN Cardinality(Present(h)) + 1 ELSE h[c].id
<1>1. c \in Names
  BY NamesFinite
<1>2. h \in HeadersType /\ g \in HeadersType
  BY AddType DEF Good
<1>3. /\ g[c].id = id /\ g[c].values = Append(kept, v)
      /\ \A n \in Names : n # c => g[n] = h[n]
  BY <1>1, <1>2 DEF Add, HeadersType
<1>4. IsFiniteSet(Present(h)) /\ Cardinality(Present(h)) \in Nat
  BY CardinalityPresent DEF Present
<1>5. id \in Nat /\ id # 0
  BY <1>1, <1>4, GoodHeader DEF Header
<1>6. Present(g) = Present(h) \cup {c}
  <2> HIDE DEF c, g, id
  <2> QED BY <1>1, <1>3, <1>5 DEF Present
<1>7. /\ kept \in Seq(HdrValue) /\ WellFormedValues(kept) /\ v \in HdrValue
      /\ v.state # "Deleted" /\ (v.state = "Modified" => kept = <<>>)
  <2>1. h[c].values \in Seq(HdrValue) /\ WellFormedValues(h[c].values)
    BY <1>1, GoodHeader
  <2>2. <<>> \in Seq(HdrValue) /\ WellFormedValues(<<>>)
    BY DEF WellFormedValues
  <2> QED BY <2>1, <2>2 DEF HdrValue
<1>8. WellFormedValues(Append(kept, v)) /\ Append(kept, v) # <<>>
  <2> HIDE DEF kept, v
  <2>1. WellFormedValues(Append(kept, v))
    BY <1>7, AppendWellFormed
  <2>2. Len(Append(kept, v)) = Len(kept) + 1 /\ Len(kept) \in Nat /\ Len(<<>>) = 0
    BY <1>7, AppendProperties, LenProperties
  <2>3. Append(kept, v) = <<>> => Len(Append(kept, v)) = 0
    OBVIOUS
  <2> QED BY <2>1, <2>2, <2>3
<1> HIDE DEF c, g, kept, v
<1>9. \A n \in Names : /\ WellFormedValues(g[n].values)
                       /\ n \in Present(g) <=> g[n].values # <<>>
  BY <1>3, <1>6, <1>8, GoodHeader
<1>10. {g[n].id : n \in Present(g)} = 1..Cardinality(Present(g))
  <2>1. {h[n].id : n \in Present(h)} = 1..Cardinality(Present(h))
    BY DEF Good, HeadersWellFormed
  <2>2. CASE c \in Present(h)
    <3>1. id = h[c].id
      BY <2>2 DEF Present
    <3>2. Present(g) = Present(h) /\ \A n \in Present(h) : g[n].id = h[n].id
      BY <1>3, <1>6, <2>2, <3>1 DEF Present
    <3> QED BY <2>1, <3>2
  <2>3. CASE c \notin Present(h)
    <3>1. id = Cardinality(Present(h)) + 1
      BY <1>1, <2>3 DEF Present
    <3>2. Cardinality(Present(g)) = Cardinality(Present(h)) + 1
      BY <1>4, <1>6, <2>3, FS_AddElement
    <3>3. \A n \in Present(h) : g[n].id = h[n].id
      BY <1>3, <2>3 DEF Present
    <3>4. {g[n].id : n \in Present(g)} = {h[n].id : n \in Present(h)} \cup {id}
      BY <1>3, <1>6, <3>3
    <3> HIDE DEF id
    <3> QED BY <1>4, <2>1, <3>1, <3>2, <3>4
  <2> QED BY <2>2, <2>3
<1>11. Present(g) \subseteq Names
  BY DEF Present
<1> QED BY <1>2, <1>9, <1>10, <1>11 DEF Good, HeadersWellFormed, g

\* addProcessedHeaders (parser.go, 389-399).
LEMMA AddProcessedGood ==
  ASSUME NEW h, Good(h), NEW name \in Spellings, NEW value \in Values
  PROVE  Good(AddProcessedHeaders(h, name, value))
BY AddGood DEF AddProcessedHeaders, HdrState

\* Headers.Delete (header.go, 163-180).
LEMMA DeleteGood ==
  ASSUME NEW h, Good(h), NEW name \in Spellings
  PROVE  Good(Delete(h, name))
<1> DEFINE c == CanonicalHeaderName[name]
           g == Delete(h, name)
<1>1. c \in Names
  BY NamesFinite
<1>2. h \in HeadersType /\ g \in HeadersType
  BY DeleteType DEF Good
<1>3. /\ g[c].values = MarkDeleted(h[c].values)
      /\ \A n \in Names : n # c => g[n] = h[n]
      /\ \A n \in Names : g[n].id = h[n].id
  BY <1>1, <1>2 DEF Delete, HeadersType, Header
<1>4. Present(g) = Present(h)
  BY <1>3 DEF Present
<1>5. /\ h[c].values \in Seq(HdrValue)
      /\ MarkDeleted(h[c].values) \in Seq(HdrValue)
      /\ Len(MarkDeleted(h[c].values)) = Len(h[c].values)
      /\ WellFormedValues(MarkDeleted(h[c].values))
  BY <1>1, GoodHeader, MarkDeletedType, MarkDeletedWellFormed
<1>6. h[c].values # <<>> => MarkDeleted(h[c].values) # <<>>
  <2>1. h[c].values # <<>> => Len(h[c].values) # 0
    BY <1>5, EmptySeq
  <2>2. MarkDeleted(h[c].values) = <<>> => Len(MarkDeleted(h[c].values)) = 0
    OBVIOUS
  <2> QED BY <1>5, <2>1, <2>2
<1> HIDE DEF c, g
<1>7. \A n \in Names : /\ WellFormedValues(g[n].values)
                       /\ n \in Present(g) <=> g[n].values # <<>>
  BY <1>3, <1>4, <1>5, <1>6, GoodHeader
<1>8. Present(g) \subseteq Names
  BY DEF Present
<1>9. {g[n].id : n \in Present(g)} = 1..Cardinality(Present(g))
  <2>1. {h[n].id : n \in Present(h)} = 1..Cardinality(Present(h))
    BY DEF Good, HeadersWellFormed
  <2>2. {g[n].id : n \in Present(g)} = {h[n].id : n \in Present(h)}
    BY <1>3, <1>4, <1>8
  <2> QED BY <1>4, <2>1, <2>2
<1> QED BY <1>2, <1>7, <1>8, <1>9 DEF Good, HeadersWellFormed, g

\* mergeTempHeaders numbers the new headers on from those that were there, in the order
\* they were kept aside in (parser.go, 353-387).
LEMMA MergeGood ==
  ASSUME NEW h, Good(h), NEW temp, Good(temp)
  PROVE  Good(MergeTempHeaders(h, temp))
<1> DEFINE new == {n \in Present(temp) \ Present(h) :
                     temp[n].receivedValues # <<>> \/ Live(temp[n].values) # <<>>}
           rank(n) == Cardinality({m \in new : temp[m].id <= temp[n].id})
           id(n) == IF n \notin new THEN h[n].id ELSE Cardinality(Present(h)) + rank(n)
           g == MergeTempHeaders(h, temp)
<1>1. h \in HeadersType /\ temp \in HeadersType /\ g \in HeadersType
  BY MergeTempHeadersType DEF Good
<1>2. \A n \in Names :
        IF n \notin Present(temp) \cap (Present(h) \cup new) THEN g[n] = h[n]
        ELSE g[n].id = id(n) /\ g[n].values = MergedValues(h[n].values, temp[n])
  BY DEF MergeTempHeaders
<1>3. /\ Present(h) \subseteq Names /\ Present(temp) \subseteq Names
      /\ new \subseteq Present(temp) /\ new \cap Present(h) = {}
  BY DEF Present
<1>4. /\ IsFiniteSet(new) /\ Cardinality(new) \in Nat
      /\ IsFiniteSet(Present(h)) /\ Cardinality(Present(h)) \in Nat
  <2>1. new \in SUBSET Names /\ Present(h) \in SUBSET Names
    BY <1>3
  <2> HIDE DEF new
  <2> QED BY <2>1, CardinalityPresent
<1>5. {rank(n) : n \in new} = 1..Cardinality(new)
  <2> DEFINE key == [n \in Names |-> temp[n].id]
  <2>1. \A n \in new : key[n] = temp[n].id /\ key[n] \in Nat
    BY <1>1, <1>3 DEF HeadersType, Header
  <2>2. \A m, n \in new : temp[m].id = temp[n].id => m = n
    BY <1>1, <1>3, IdsDiffer DEF Good, HeadersWellFormed, Enumerated
  <2> HIDE DEF key, new
  <2>3. {Cardinality({m \in new : key[m] <= key[n]}) : n \in new} = 1..Cardinality(new)
    <3>1. \A n \in new : key[n] \in Nat
      BY <2>1
    <3>2. \A m, n \in new : key[m] = key[n] => m = n
      BY <2>1, <2>2
    <3> QED BY <1>4, <3>1, <3>2, RanksAreEnumerated
  <2>4. \A n \in new : {m \in new : key[m] <= key[n]} = {m \in new : temp[m].id <= temp[n].id}
    BY <2>1
  <2> QED BY <2>3, <2>4
<1>6. \A n \in new : rank(n) \in 1..Cardinality(new)
  <2> HIDE DEF new, rank
  <2> QED BY <1>5
<1>7. \A n \in Names : g[n].id = id(n)
  <2> HIDE DEF g, rank
  <2> QED BY <1>2, <1>3
<1>8. Present(g) = Present(h) \cup new
  <2> HIDE DEF g, rank, new
  <2> QED BY <1>3, <1>4, <1>6, <1>7 DEF Present
<1>9. {g[n].id : n \in Present(g)} = 1..Cardinality(Present(g))
  <2>1. {h[n].id : n \in Present(h)} = 1..Cardinality(Present(h))
    BY DEF Good, HeadersWellFormed
  <2>2. Cardinality(Present(g)) = Cardinality(Present(h)) + Cardinality(new)
    <3> HIDE DEF g, new
    <3>1. Present(h) \cap new = {} /\ Cardinality({}) = 0
      BY <1>3, FS_EmptySet
    <3>2. Cardinality(Present(h) \cup new) =
            Cardinality(Present(h)) + Cardinality(new) - Cardinality(Present(h) \cap new)
      BY <1>4, FS_Union
    <3>3. Cardinality(Present(h) \cap new) = 0
      BY <3>1
    <3>4. Cardinality(Present(g)) = Cardinality(Present(h) \cup new)
      BY <1>8
    <3> QED BY <1>4, <3>2, <3>3, <3>4
  <2> HIDE DEF g, new, rank
  <2>3. \A i : i \in {g[n].id : n \in Present(g)} <=>
               \/ i \in 1..Cardinality(Present(h))
               \/ \E n \in new : i = Cardinality(Present(h)) + rank(n)
    <3>1. \A n \in Present(h) : g[n].id = h[n].id
      BY <1>3, <1>7
    <3>2. \A n \in new : g[n].id = Cardinality(Present(h)) + rank(n)
      BY <1>3, <1>7
    <3> QED BY <1>8, <2>1, <3>1, <3>2
  <2>4. ASSUME NEW i \in 1..(Cardinality(Present(h)) + Cardinality(new)),
               ~(i \in 1..Cardinality(Present(h)))
        PROVE  \E n \in new : i = Cardinality(Present(h)) + rank(n)
    <3>1. i - Cardinality(Present(h)) \in 1..Cardinality(new)
      BY <1>4, <2>4
    <3>2. PICK n \in new : i - Cardinality(Present(h)) = rank(n)
      BY <1>5, <3>1
    <3>3. rank(n) \in Nat
      BY <1>4, <1>6
    <3> QED BY <1>4, <3>2, <3>3
  <2>5. \A n \in new : Cardinality(Present(h)) + rank(n)
                         \in 1..(Cardinality(Present(h)) + Cardinality(new))
    BY <1>4, <1>6
  <2> QED BY <1>4, <2>2, <2>3, <2>4, <2>5
<1>10. ASSUME NEW n \in Names
       PROVE  /\ WellFormedValues(g[n].values)
              /\ n \in Present(g) <=> g[n].values # <<>>
  <2>1. CASE n \notin Present(temp) \cap (Present(h) \cup new)
    <3>1. g[n] = h[n] /\ n \notin new
      BY <1>2, <1>3, <2>1
    <3> HIDE DEF g, new
    <3> QED BY <1>8, <3>1, GoodHeader
  <2>2. CASE n \in Present(temp) \cap (Present(h) \cup new)
    <3>1. g[n].values = MergedValues(h[n].values, temp[n])
      BY <1>2, <2>2
    <3>2. /\ h[n].values \in Seq(HdrValue) /\ WellFormedValues(h[n].values)
          /\ temp[n] \in Header /\ WellFormedValues(temp[n].values)
      BY GoodHeader
    <3>3. h[n].values # <<>> \/ temp[n].receivedValues # <<>> \/ Live(temp[n].values) # <<>>
      BY <2>2, GoodHeader
    <3>4. n \in Present(g)
      BY <1>8, <2>2
    <3> HIDE DEF g, new
    <3> QED BY <3>1, <3>2, <3>3, <3>4, MergedValuesWellFormed
  <2> QED BY <2>1, <2>2
<1>11. Present(g) \subseteq Names
  BY DEF Present
<1> HIDE DEF g
<1> QED BY <1>1, <1>9, <1>10, <1>11 DEF Good, HeadersWellFormed, g

-----------------------------------------------------------------------------
(* The steps of Parse *)

Inv == TypeOK /\ AllHeadersWellFormed

\* Both maps of a transaction, and the one that is kept aside.
LEMMA InvGood ==
  ASSUME TypeOK
  PROVE  AllHeadersWellFormed <=>
           Good(tx.reqHeaders) /\ Good(tx.respHeaders) /\ Good(tempHeaders)
BY DEF TypeOK, TxType, AllHeadersWellFormed, Good

\* A record is appended: the headers stay (parser.go, 101).
LEMMA RecordKeepsHeaders ==
  ASSUME NEW t \in TxType, NEW l
  PROVE  /\ WithRecord(t, l).reqHeaders = t.reqHeaders
         /\ WithRecord(t, l).respHeaders = t.respHeaders
BY DEF WithRecord, TxType

\* One map is replaced: the other one stays (parser.go, 150-171).
LEMMA WithHeadersGood ==
  ASSUME NEW t \in TxType, Good(t.reqHeaders), Good(t.respHeaders),
         NEW tag, NEW h, Good(h)
  PROVE  /\ Good(HeadersOf(t, tag))
         /\ Good(WithHeaders(t, tag, h).reqHeaders)
         /\ Good(WithHeaders(t, tag, h).respHeaders)
<1>1. CASE IsRespTag(tag)
  BY <1>1 DEF HeadersOf, WithHeaders, TxType
<1>2. CASE ~IsRespTag(tag)
  BY <1>2 DEF HeadersOf, WithHeaders, TxType
<1> QED BY <1>1, <1>2

\* Every line keeps the headers well formed (parser.go, 44-193).
LEMMA ReadLineGood ==
  ASSUME Inv, NEW l \in Lines, ReadLine(l)
  PROVE  Good(tx'.reqHeaders) /\ Good(tx'.respHeaders) /\ Good(tempHeaders')
<1> DEFINE t == WithRecord(tx, l)
<1>1. tx \in TxType /\ Good(tx.reqHeaders) /\ Good(tx.respHeaders) /\ Good(tempHeaders)
  BY InvGood DEF Inv, TypeOK
<1>2. /\ t \in TxType /\ t.reqHeaders = tx.reqHeaders /\ t.respHeaders = tx.respHeaders
      /\ Good(t.reqHeaders) /\ Good(t.respHeaders)
  BY <1>1, WithRecordType, RecordKeepsHeaders
<1>3. CASE UNCHANGED tx /\ UNCHANGED tempHeaders
  BY <1>1, <1>3
<1>4. CASE tx' = t /\ UNCHANGED tempHeaders
  BY <1>1, <1>2, <1>4
<1>5. CASE SkipOuter(l) \/ BadTransaction(l) \/ MissingBegin(l) \/ SkipShort(l) \/ BadRecord(l)
  BY <1>3, <1>5 DEF SkipOuter, BadTransaction, MissingBegin, SkipShort, BadRecord, locals
<1>6. CASE StoreRecord(l) \/ DuplicateBegin(l) \/ Status(l) \/ End(l)
  BY <1>4, <1>6 DEF StoreRecord, DuplicateBegin, Status, End, locals
<1>7. CASE StartTransaction(l)
  BY <1>1, <1>7, NoHeadersGood DEF StartTransaction, NewTransaction, locals
<1>8. CASE ReadBegin(l)
  <2>1. tx' = [t EXCEPT !.parent = l.parent] /\ tempHeaders' = NoHeaders
    BY <1>8 DEF ReadBegin
  <2> HIDE DEF t
  <2>2. tx'.reqHeaders = t.reqHeaders /\ tx'.respHeaders = t.respHeaders
    BY <1>2, <2>1 DEF TxType
  <2> QED BY <1>2, <2>1, <2>2, NoHeadersGood
<1>9. CASE Link(l)
  <2>1. /\ tx' = t \/ tx' = [t EXCEPT !.children = Append(tx.children, l.vxid)]
        /\ UNCHANGED tempHeaders
    BY <1>9 DEF Link, locals
  <2> HIDE DEF t
  <2>2. tx'.reqHeaders = t.reqHeaders /\ tx'.respHeaders = t.respHeaders
    BY <1>2, <2>1 DEF TxType
  <2> QED BY <1>1, <1>2, <2>1, <2>2
<1>10. CASE VCLCall(l)
  <2>1. /\ Good(MergeTempHeaders(t.reqHeaders, tempHeaders))
        /\ Good(MergeTempHeaders(t.respHeaders, tempHeaders))
    BY <1>1, <1>2, MergeGood
  <2>2. lastHeader \in {"none", "req", "resp"}
    BY DEF Inv, TypeOK
  <2>3. \/ tx' = t /\ (UNCHANGED tempHeaders \/ tempHeaders' = NoHeaders)
        \/ /\ tx' = [t EXCEPT !.respHeaders = MergeTempHeaders(t.respHeaders, tempHeaders)]
           /\ tempHeaders' = NoHeaders
        \/ /\ tx' = [t EXCEPT !.reqHeaders = MergeTempHeaders(t.reqHeaders, tempHeaders)]
           /\ tempHeaders' = NoHeaders
    BY <1>10, <2>2 DEF VCLCall
  <2> HIDE DEF t
  <2>4. \A h : /\ [t EXCEPT !.respHeaders = h].respHeaders = h
               /\ [t EXCEPT !.respHeaders = h].reqHeaders = t.reqHeaders
               /\ [t EXCEPT !.reqHeaders = h].reqHeaders = h
               /\ [t EXCEPT !.reqHeaders = h].respHeaders = t.respHeaders
    BY <1>2 DEF TxType
  <2> QED BY <1>1, <1>2, <2>1, <2>3, <2>4, NoHeadersGood
<1>11. CASE HeaderRecord(l)
  <2> DEFINE h == HeadersOf(tx, l.tag)
             g == IF clientHeaders THEN Add(h, l.name, l.value, "Received")
                  ELSE AddProcessedHeaders(h, l.name, l.value)
  <2>1. l.name \in Spellings /\ l.value \in Values
    BY <1>11, ProcessRecordType DEF HeaderRecord
  <2>2. Good(h)
    BY <1>1, NoHeadersGood, WithHeadersGood
  <2>3. Good(g)
    BY <2>1, <2>2, AddGood, AddProcessedGood DEF HdrState
  <2>4. Good(AddProcessedHeaders(tempHeaders, l.name, l.value))
    BY <1>1, <2>1, AddProcessedGood
  <2>5. Good(WithHeaders(t, l.tag, g).reqHeaders) /\ Good(WithHeaders(t, l.tag, g).respHeaders)
    BY <1>2, <2>3, WithHeadersGood
  <2>6. \/ tx' = t /\ tempHeaders' = AddProcessedHeaders(tempHeaders, l.name, l.value)
        \/ tx' = WithHeaders(t, l.tag, g) /\ UNCHANGED tempHeaders
    BY <1>11 DEF HeaderRecord
  <2> HIDE DEF t, g
  <2> QED BY <1>1, <1>2, <2>4, <2>5, <2>6
<1>12. CASE HeaderUnset(l)
  <2> DEFINE h == Delete(HeadersOf(tx, l.tag), l.name)
             kept == IF clientHeaders /\ IsVarnishModifiedHeader(l.name, l.tag)
                     THEN Add(tempHeaders, l.name, l.value, "Received") ELSE tempHeaders
  <2>1. l.name \in Spellings /\ l.value \in Values
    BY <1>12, ProcessRecordType DEF HeaderUnset
  <2>2. Good(h)
    BY <1>1, <2>1, NoHeadersGood, WithHeadersGood, DeleteGood
  <2>3. Good(Delete(kept, l.name))
    BY <1>1, <2>1, AddGood, DeleteGood DEF HdrState
  <2>4. tx' = WithHeaders(t, l.tag, h) /\ tempHeaders' = Delete(kept, l.name)
    BY <1>12 DEF HeaderUnset
  <2> HIDE DEF t, h, kept
  <2> QED BY <1>2, <2>2, <2>3, <2>4, WithHeadersGood
<1> QED BY <1>5, <1>6, <1>7, <1>8, <1>9, <1>10, <1>11, <1>12 DEF ReadLine

\* Whatever is logged, in whatever order, the header maps keep what the renderers rely
\* on: deleted values first, at most one modified, none without a value, and ids that
\* number them without a gap (header.go, 117-180; parser.go, 353-387).
THEOREM HeadersWellFormedCorrect == Spec => []AllHeadersWellFormed
<1>1. Init => Inv
  <2> SUFFICES ASSUME Init PROVE Inv
    OBVIOUS
  <2>1. TypeOK
    BY InitType
  <2>2. /\ tx.reqHeaders = NoHeaders /\ tx.respHeaders = NoHeaders
        /\ tempHeaders = NoHeaders
    BY DEF Init, NewTransaction
  <2> QED BY <2>1, <2>2, InvGood, NoHeadersGood DEF Inv
<1>2. Inv /\ [Next]_vars => Inv'
  <2> SUFFICES ASSUME Inv, [Next]_vars PROVE Inv'
    OBVIOUS
  <2>1. TypeOK'
    BY NextType DEF Inv
  <2>2. Good(tx.reqHeaders) /\ Good(tx.respHeaders) /\ Good(tempHeaders)
    BY InvGood DEF Inv
  <2>3. Good(tx'.reqHeaders) /\ Good(tx'.respHeaders) /\ Good(tempHeaders')
    <3>1. CASE \E l \in Lines : ReadLine(l)
      BY <3>1, ReadLineGood
    <3>2. CASE EndOfInput \/ ScanError
      BY <2>2, <3>2 DEF EndOfInput, ScanError, locals
    <3>3. CASE UNCHANGED vars
      BY <2>2, <3>3 DEF vars
    <3> QED BY <3>1, <3>2, <3>3 DEF Next
  <2> QED BY <2>1, <2>3 DEF Inv, AllHeadersWellFormed, Good
<1>3. Inv => AllHeadersWellFormed
  BY DEF Inv
<1> QED BY <1>1, <1>2, <1>3, PTL DEF Spec

-----------------------------------------------------------------------------
(* The phases of a transaction *)

\* A record at the end does not change in which phase the others were read; the next
\* one is read as received after a status, and is not after a VCL call (parser.go,
\* 104-124, 144-148).
LEMMA PhaseOfLonger ==
  ASSUME NEW records \in Seq(Records), NEW r
  PROVE  LET longer == Append(records, r)
             next   == Len(records) + 1
         IN  /\ \A i \in 1..next : InClientPhase(longer, i) <=> InClientPhase(records, i)
             /\ r.tag = "VCL_call" => ~InClientPhase(longer, next + 1)
             /\ r.tag = "Status" => InClientPhase(longer, next + 1)
             /\ r.tag \notin {"VCL_call", "Status"} =>
                  (InClientPhase(longer, next + 1) <=> InClientPhase(records, next))
<1> DEFINE longer == Append(records, r)
           n == Len(records)
<1>1. /\ n \in Nat /\ \A i \in 1..n : longer[i] = records[i]
      /\ longer[n + 1] = r
  BY AppendRecord
<1> HIDE DEF longer, n
<1>2. \A i \in 1..(n + 1) : InClientPhase(longer, i) <=> InClientPhase(records, i)
  <2> SUFFICES ASSUME NEW i \in 1..(n + 1)
               PROVE  InClientPhase(longer, i) <=> InClientPhase(records, i)
    OBVIOUS
  <2>1. \A j \in 1..(i - 1) : longer[j] = records[j] /\ (j + 1)..(i - 1) \subseteq 1..(i - 1)
    BY <1>1
  <2> QED BY <2>1 DEF InClientPhase
<1>3. (n + 2) - 1 = n + 1 /\ (n + 1) - 1 = n
  BY <1>1
<1>4. ASSUME r.tag = "VCL_call" PROVE ~InClientPhase(longer, n + 2)
  <2>1. n + 1 \in 1..((n + 2) - 1) /\ ((n + 1) + 1)..((n + 2) - 1) = {}
    BY <1>1
  <2> QED BY <1>1, <1>4, <2>1 DEF InClientPhase
<1>5. ASSUME r.tag = "Status" PROVE InClientPhase(longer, n + 2)
  <2>1. \A j \in 1..((n + 2) - 1) : j # n + 1 => n + 1 \in (j + 1)..((n + 2) - 1)
    BY <1>1
  <2> QED BY <1>1, <1>5, <2>1 DEF InClientPhase
<1>6. ASSUME r.tag \notin {"VCL_call", "Status"}
      PROVE  InClientPhase(longer, n + 2) <=> InClientPhase(longer, n + 1)
  <2>1. \A j \in 1..(n + 1) : j # n + 1 => j \in 1..n
    BY <1>1
  <2>2. \A j \in 1..n : \A k : k \in (j + 1)..(n + 1) /\ longer[k].tag = "Status" =>
                             k \in (j + 1)..n
    BY <1>1, <1>6
  <2>3. \A j \in 1..n : j \in 1..(n + 1) /\ (j + 1)..n \subseteq (j + 1)..(n + 1)
    BY <1>1
  <2> QED BY <1>1, <1>3, <1>6, <2>1, <2>2, <2>3 DEF InClientPhase
<1>7. (n + 1) + 1 = n + 2 /\ n + 1 \in 1..(n + 1)
  BY <1>1
<1> QED BY <1>2, <1>4, <1>5, <1>6, <1>7 DEF longer, n

-----------------------------------------------------------------------------
(* The received values of a name *)

\* A record is one of those that are received for the name n.
Receives(records, r, n, resp) ==
  /\ r.tag \in HeaderTags /\ IsRespTag(r.tag) = resp /\ r.name = n
  /\ InClientPhase(records, Len(records) + 1)

\* The records received for a name: those there were, and the new one if it is one.
LEMMA ReceivedOfLonger ==
  ASSUME NEW records \in Seq(Records), NEW r, NEW n, NEW resp
  PROVE  LET was == ReceivedRecords(records, n, resp)
             is  == ReceivedRecords(Append(records, r), n, resp)
         IN  IF Receives(records, r, n, resp) THEN is = was \cup {Len(records) + 1}
             ELSE is = was
<1> DEFINE longer == Append(records, r)
           last == Len(records) + 1
<1>1. /\ DOMAIN records = 1..Len(records) /\ Len(records) \in Nat
      /\ DOMAIN longer = 1..last /\ longer[last] = r
      /\ \A i \in DOMAIN records : longer[i] = records[i]
  BY AppendRecord
<1>2. \A i \in 1..last : InClientPhase(longer, i) <=> InClientPhase(records, i)
  BY PhaseOfLonger
<1> HIDE DEF longer
<1>3. \A i : i \in DOMAIN longer <=> i \in DOMAIN records \/ i = last
  BY <1>1
<1>4. last \notin DOMAIN records
  BY <1>1
<1> HIDE DEF last
<1>5. \A i \in DOMAIN records :
        i \in ReceivedRecords(longer, n, resp) <=> i \in ReceivedRecords(records, n, resp)
  BY <1>1, <1>2, <1>3 DEF ReceivedRecords
<1>6. last \in ReceivedRecords(longer, n, resp) <=> Receives(records, r, n, resp)
  BY <1>1, <1>2, <1>3 DEF ReceivedRecords, Receives, last
<1>7. /\ ReceivedRecords(longer, n, resp) \subseteq DOMAIN longer
      /\ ReceivedRecords(records, n, resp) \subseteq DOMAIN records
  BY DEF ReceivedRecords
<1> DEFINE was == ReceivedRecords(records, n, resp)
           is == ReceivedRecords(longer, n, resp)
<1> HIDE DEF was, is
<1>8. \A i : i \in is <=> i \in was \/ (i = last /\ Receives(records, r, n, resp))
  BY <1>3, <1>4, <1>5, <1>6, <1>7 DEF was, is
<1>9. ASSUME Receives(records, r, n, resp) PROVE is = was \cup {last}
  BY <1>8, <1>9
<1>10. ASSUME ~Receives(records, r, n, resp) PROVE is = was
  BY <1>8, <1>10
<1> QED BY <1>9, <1>10 DEF longer, last, was, is

\* A record that is not received for the name leaves its values as logged
\* (parser.go, 160-171).
LEMMA LoggedStays ==
  ASSUME NEW records \in Seq(Records), NEW received, NEW r, NEW n, NEW resp,
         AsLogged(records, received, n, resp), ~Receives(records, r, n, resp)
  PROVE  AsLogged(Append(records, r), received, n, resp)
<1>1. ReceivedRecords(Append(records, r), n, resp) = ReceivedRecords(records, n, resp)
  BY ReceivedOfLonger
<1>2. \A i \in ReceivedRecords(records, n, resp) : Append(records, r)[i] = records[i]
  BY AppendRecord DEF ReceivedRecords
<1> QED BY <1>1, <1>2 DEF AsLogged

\* A record that is received puts its value at the end (header.go, 152-158).
LEMMA LoggedGrows ==
  ASSUME NEW records \in Seq(Records), NEW received \in Seq(Values), NEW r, NEW n, NEW resp,
         AsLogged(records, received, n, resp), Receives(records, r, n, resp),
         r.value \in Values
  PROVE  AsLogged(Append(records, r), Append(received, r.value), n, resp)
<1> DEFINE longer == Append(records, r)
           last == Len(records) + 1
           logged == ReceivedRecords(records, n, resp)
           values == Append(received, r.value)
           upTo(S, i) == {j \in S : j <= i}
<1>1. /\ DOMAIN records = 1..Len(records) /\ Len(records) \in Nat
      /\ longer[last] = r /\ \A i \in DOMAIN records : longer[i] = records[i]
  BY AppendRecord
<1>2. logged \subseteq 1..Len(records) /\ IsFiniteSet(logged) /\ last \notin logged
  <2>1. logged \in SUBSET (1..Len(records))
    BY <1>1 DEF ReceivedRecords
  <2>2. IsFiniteSet(1..Len(records))
    <3>1. 1 \in Int /\ Len(records) \in Int
      BY <1>1
    <3> HIDE DEF longer, last, logged, values, upTo
    <3> QED BY <3>1, FS_Interval
  <2> HIDE DEF logged
  <2>3. IsFiniteSet(logged)
    BY <2>1, <2>2, FS_Subset
  <2>4. last \notin 1..Len(records)
    BY <1>1
  <2> QED BY <2>1, <2>3, <2>4
<1>3. ReceivedRecords(longer, n, resp) = logged \cup {last}
  BY ReceivedOfLonger
<1>4. /\ Len(received) = Cardinality(logged)
      /\ \A i \in logged : received[Cardinality(upTo(logged, i))] = records[i].value
  BY DEF AsLogged
<1>5. /\ Len(received) \in Nat /\ Len(values) = Len(received) + 1
      /\ \A i \in 1..Len(received) : values[i] = received[i]
      /\ values[Len(received) + 1] = r.value
  BY AppendProperties, LenProperties
<1> HIDE DEF longer, logged, values
<1>6. Len(values) = Cardinality(logged \cup {last})
  BY <1>2, <1>4, <1>5, FS_AddElement
<1>7. ASSUME NEW i \in logged
      PROVE  values[Cardinality(upTo(logged \cup {last}, i))] = longer[i].value
  <2>1. i \in 1..Len(records) /\ ~(last <= i)
    BY <1>1, <1>2
  <2>2. upTo(logged \cup {last}, i) = upTo(logged, i)
    BY <2>1
  <2>3. Cardinality(upTo(logged, i)) \in 1..Len(received)
    <3>1. upTo(logged, i) \in SUBSET logged
      OBVIOUS
    <3>2. /\ Cardinality(upTo(logged, i)) \in Nat
          /\ Cardinality(upTo(logged, i)) <= Cardinality(logged)
      BY <1>2, <3>1, FS_Subset, FS_CardinalityType
    <3>3. i \in upTo(logged, i)
      BY <2>1
    <3>4. Cardinality(upTo(logged, i)) # 0
      BY <1>2, <3>1, <3>3, FS_Subset, FS_EmptySet
    <3> HIDE DEF upTo
    <3> QED BY <1>4, <1>5, <3>2, <3>4
  <2>4. Cardinality(upTo(logged \cup {last}, i)) = Cardinality(upTo(logged, i))
    BY <2>2
  <2> HIDE DEF upTo, last
  <2> QED BY <1>1, <1>4, <1>5, <1>7, <2>1, <2>3, <2>4
<1>8. values[Cardinality(upTo(logged \cup {last}, last))] = longer[last].value
  <2>1. upTo(logged \cup {last}, last) = logged \cup {last}
    <3>1. \A j \in 1..Len(records) : j <= last
      BY <1>1
    <3>2. last <= last
      BY <1>1
    <3> HIDE DEF last
    <3> QED BY <1>2, <3>1, <3>2
  <2>2. Cardinality(upTo(logged \cup {last}, last)) = Cardinality(logged \cup {last})
    BY <2>1
  <2>3. Cardinality(logged \cup {last}) = Len(received) + 1
    BY <1>5, <1>6
  <2> HIDE DEF upTo, last
  <2> QED BY <1>1, <1>5, <2>2, <2>3 DEF last
<1> HIDE DEF last
<1> QED BY <1>3, <1>6, <1>7, <1>8 DEF AsLogged, longer, values

-----------------------------------------------------------------------------
(* The map of a side *)

Ordinary == Names \ VarnishModified

Logged(records, h, resp) ==
  \A n \in Ordinary : AsLogged(records, h[n].receivedValues, n, resp)

\* A record is read and the map receives its value where it is received: the map is as
\* logged again (parser.go, 150-171).
LEMMA ReadLogged ==
  ASSUME NEW records \in Seq(Records), NEW h \in HeadersType, NEW g, NEW r, NEW resp,
         Logged(records, h, resp), r.tag \in HeaderTags => r.value \in Values,
         \A n \in Ordinary :
           g[n].receivedValues = IF Receives(records, r, n, resp)
                                 THEN Append(h[n].receivedValues, r.value)
                                 ELSE h[n].receivedValues
  PROVE  Logged(Append(records, r), g, resp)
<1> SUFFICES ASSUME NEW n \in Ordinary
             PROVE  AsLogged(Append(records, r), g[n].receivedValues, n, resp)
  BY DEF Logged
<1>1. h[n].receivedValues \in Seq(Values) /\ AsLogged(records, h[n].receivedValues, n, resp)
  BY DEF Ordinary, HeadersType, Header, Logged
<1>2. CASE Receives(records, r, n, resp)
  <2>1. r.value \in Values
    BY <1>2 DEF Receives
  <2> QED BY <1>1, <1>2, <2>1, LoggedGrows
<1>3. CASE ~Receives(records, r, n, resp)
  BY <1>1, <1>3, LoggedStays
<1> QED BY <1>2, <1>3

\* A record that is no header record is received for no name.
LEMMA OtherLogged ==
  ASSUME NEW records \in Seq(Records), NEW h \in HeadersType, NEW g, NEW r, NEW resp,
         Logged(records, h, resp), r.tag \notin HeaderTags,
         \A n \in Ordinary : g[n].receivedValues = h[n].receivedValues
  PROVE  Logged(Append(records, r), g, resp)
<1>1. \A n \in Ordinary : ~Receives(records, r, n, resp)
  BY DEF Receives
<1> QED BY <1>1, ReadLogged

\* What Add receives: the value, for its name, in state Received only (header.go,
\* 152-158).
LEMMA AddReceives ==
  ASSUME NEW h \in HeadersType, NEW name \in Spellings, NEW value \in Values,
         NEW state \in HdrState, NEW n \in Names
  PROVE  Add(h, name, value, state)[n].receivedValues =
           IF n = CanonicalHeaderName[name] /\ state = "Received"
           THEN Append(h[n].receivedValues, value) ELSE h[n].receivedValues
BY DEF Add, HeadersType

\* addProcessedHeaders receives nothing (parser.go, 389-399).
LEMMA ProcessedReceives ==
  ASSUME NEW h \in HeadersType, NEW name \in Spellings, NEW value \in Values,
         NEW n \in Names
  PROVE  AddProcessedHeaders(h, name, value)[n].receivedValues = h[n].receivedValues
<1>1. PICK state \in {"Added", "Modified"} :
        AddProcessedHeaders(h, name, value) = Add(h, name, value, state)
  BY DEF AddProcessedHeaders
<1> QED BY <1>1, AddReceives DEF HdrState

\* The merge receives nothing for a name that is not kept aside (parser.go, 369-375).
LEMMA MergeReceives ==
  ASSUME NEW h \in HeadersType, NEW temp \in HeadersType, NEW n \in Names,
         temp[n].receivedValues = <<>>
  PROVE  MergeTempHeaders(h, temp)[n].receivedValues = h[n].receivedValues
<1>1. h[n].receivedValues \in Seq(Values)
  BY DEF HeadersType, Header
<1>2. h[n].receivedValues \o <<>> = h[n].receivedValues
  BY <1>1, ConcatEmptySeq
<1> QED BY <1>2 DEF MergeTempHeaders

-----------------------------------------------------------------------------
(* The steps of Parse *)

\* clientHeaders says in which phase the next record is read.
PhaseIsKnown ==
  /\ pc = "begin" => tx.records = <<>>
  /\ pc = "inner" => (clientHeaders <=> InClientPhase(tx.records, Len(tx.records) + 1))

\* Only values of the names Varnish may change itself are received aside.
AsideAreModified == \A n \in Ordinary : tempHeaders[n].receivedValues = <<>>

ReceivedInv == TypeOK /\ PhaseIsKnown /\ AsideAreModified /\ ReceivedAsLogged

\* The two sides of the property.
LEMMA SidesLogged ==
  ReceivedAsLogged <=> /\ Logged(tx.records, tx.reqHeaders, FALSE)
                       /\ Logged(tx.records, tx.respHeaders, TRUE)
BY DEF ReceivedAsLogged, Logged, Ordinary

\* A step of the inner loop reads one record, and its phase is known (parser.go, 101-148).
LEMMA PhaseStep ==
  ASSUME TypeOK, PhaseIsKnown, NEW l \in Lines, ReadLine(l)
  PROVE  PhaseIsKnown'
<1> DEFINE r == ProcessRecord(l)
<1>t. tx \in TxType /\ tx.records \in Seq(Records)
  BY DEF TypeOK, TxType
<1>r. r.tag = l.tag
  BY ProcessRecordFields
<1>1. CASE SkipOuter(l) \/ BadTransaction(l) \/ MissingBegin(l) \/ BadRecord(l)
           \/ DuplicateBegin(l) \/ End(l)
  BY <1>1 DEF SkipOuter, BadTransaction, MissingBegin, BadRecord, DuplicateBegin, End, Scan,
              PhaseIsKnown
<1>2. CASE StartTransaction(l)
  BY <1>2 DEF StartTransaction, NewTransaction, PhaseIsKnown
<1>3. CASE SkipShort(l)
  BY <1>3 DEF SkipShort, Scan, PhaseIsKnown, locals
<1>4. CASE ReadBegin(l)
  <2>1. tx.records = <<>> /\ l.tag = "Begin" /\ pc' = "inner" /\ clientHeaders' = TRUE
    BY <1>4 DEF ReadBegin, Scan, PhaseIsKnown
  <2>2. tx'.records = Append(<<>>, r)
    BY <1>4, <1>t, <2>1 DEF ReadBegin, WithRecord, TxType
  <2> HIDE DEF r
  <2>3. Len(tx'.records) = 1 /\ tx'.records[1] = r
    BY <2>2
  <2>4. InClientPhase(tx'.records, Len(tx'.records) + 1)
    BY <1>r, <2>1, <2>3 DEF InClientPhase
  <2> QED BY <2>1, <2>4 DEF PhaseIsKnown
<1>5. CASE \/ StoreRecord(l) \/ VCLCall(l) \/ Status(l) \/ HeaderRecord(l) \/ HeaderUnset(l)
           \/ Link(l)
  <2>1. pc = "inner" /\ pc' = "inner"
    BY <1>5 DEF StoreRecord, VCLCall, Status, HeaderRecord, HeaderUnset, Link, Scan
  <2>2. tx'.records = Append(tx.records, r)
    <3>1. CASE Link(l)
      BY <1>t, <3>1 DEF Link, WithRecord, TxType
    <3> QED BY <1>5, <3>1, RecordRead
  <2>3. clientHeaders' = IF r.tag = "VCL_call" THEN FALSE
                         ELSE IF r.tag = "Status" THEN TRUE ELSE clientHeaders
    <3>1. CASE VCLCall(l) \/ Status(l)
      BY <1>r, <3>1 DEF VCLCall, Status
    <3>2. CASE StoreRecord(l) \/ HeaderRecord(l) \/ HeaderUnset(l) \/ Link(l)
      BY <1>r, <3>2 DEF StoreRecord, HeaderRecord, HeaderUnset, Link, HeaderTags, UnsetTags,
                        locals
    <3> QED BY <1>5, <3>1, <3>2
  <2>4. clientHeaders <=> InClientPhase(tx.records, Len(tx.records) + 1)
    BY <2>1 DEF PhaseIsKnown
  <2> HIDE DEF r
  <2>5. Len(tx'.records) = Len(tx.records) + 1
    BY <1>t, <2>2, AppendRecord
  <2>6. clientHeaders' <=> InClientPhase(tx'.records, Len(tx'.records) + 1)
    <3> DEFINE next == InClientPhase(Append(tx.records, r), Len(tx.records) + 1 + 1)
    <3>1. /\ r.tag = "VCL_call" => ~next
          /\ r.tag = "Status" => next
          /\ r.tag \notin {"VCL_call", "Status"} =>
               (next <=> InClientPhase(tx.records, Len(tx.records) + 1))
      BY <1>t, PhaseOfLonger
    <3> HIDE DEF next
    <3>2. clientHeaders' <=> next
      BY <2>3, <2>4, <3>1
    <3> QED BY <2>2, <2>5, <3>2 DEF next
  <2> QED BY <2>1, <2>6 DEF PhaseIsKnown
<1> QED BY <1>1, <1>2, <1>3, <1>4, <1>5 DEF ReadLine

\* Nothing else is received aside (parser.go, 160-193).
LEMMA AsideStep ==
  ASSUME TypeOK, AsideAreModified, NEW l \in Lines, ReadLine(l)
  PROVE  AsideAreModified'
<1> SUFFICES ASSUME NEW n \in Ordinary PROVE tempHeaders'[n].receivedValues = <<>>
  BY DEF AsideAreModified, Ordinary
<1>1. /\ n \in Names /\ n \notin VarnishModified /\ tempHeaders \in HeadersType
      /\ tempHeaders[n].receivedValues = <<>>
  BY DEF Ordinary, AsideAreModified, TypeOK
<1>2. NoHeaders[n].receivedValues = <<>>
  BY <1>1 DEF NoHeaders, NoHeader
<1>3. CASE UNCHANGED tempHeaders \/ tempHeaders' = NoHeaders
  BY <1>1, <1>2, <1>3
<1>4. CASE HeaderRecord(l)
  <2>1. l.name \in Spellings /\ l.value \in Values
    BY <1>4, ProcessRecordType DEF HeaderRecord
  <2>2. AddProcessedHeaders(tempHeaders, l.name, l.value)[n].receivedValues = <<>>
    BY <1>1, <2>1, ProcessedReceives
  <2>3. UNCHANGED tempHeaders \/ tempHeaders' = AddProcessedHeaders(tempHeaders, l.name, l.value)
    BY <1>4 DEF HeaderRecord
  <2> QED BY <1>1, <2>2, <2>3
<1>5. CASE HeaderUnset(l)
  <2> DEFINE added == Add(tempHeaders, l.name, l.value, "Received")
             aside == clientHeaders /\ IsVarnishModifiedHeader(l.name, l.tag)
             kept == IF aside THEN added ELSE tempHeaders
  <2>1. l.name \in Spellings /\ l.value \in Values
    BY <1>5, ProcessRecordType DEF HeaderUnset
  <2>2. kept \in HeadersType
    BY <1>1, <2>1, AddType DEF HdrState
  <2>3. kept[n].receivedValues = <<>>
    <3>1. CASE aside
      <4>1. n # CanonicalHeaderName[l.name]
        BY <1>1, <3>1 DEF IsVarnishModifiedHeader
      <4>2. added[n].receivedValues = tempHeaders[n].receivedValues
        BY <1>1, <2>1, <4>1, AddReceives DEF HdrState
      <4> QED BY <1>1, <3>1, <4>2
    <3>2. CASE ~aside
      BY <1>1, <3>2
    <3> QED BY <3>1, <3>2
  <2>4. tempHeaders' = Delete(kept, l.name)
    BY <1>5 DEF HeaderUnset
  <2> HIDE DEF kept
  <2> QED BY <1>1, <2>1, <2>2, <2>3, <2>4, DeleteReceived
<1>6. CASE ~HeaderRecord(l) /\ ~HeaderUnset(l)
  <2>1. UNCHANGED tempHeaders \/ tempHeaders' = NoHeaders
    BY <1>6 DEF ReadLine, SkipOuter, StartTransaction, BadTransaction, ReadBegin, MissingBegin,
                SkipShort, BadRecord, StoreRecord, DuplicateBegin, VCLCall, Status, Link, End,
                locals
  <2> QED BY <1>3, <2>1
<1> QED BY <1>4, <1>5, <1>6

\* A record that is no header record is read and no map receives a value.
LEMMA OtherStep ==
  ASSUME TypeOK, ReceivedAsLogged, NEW l \in Lines, l.tag \notin HeaderTags,
         tx'.records = Append(tx.records, ProcessRecord(l)),
         \A n \in Ordinary :
           /\ tx'.reqHeaders[n].receivedValues = tx.reqHeaders[n].receivedValues
           /\ tx'.respHeaders[n].receivedValues = tx.respHeaders[n].receivedValues
  PROVE  ReceivedAsLogged'
<1> DEFINE r == ProcessRecord(l)
<1>1. /\ tx.records \in Seq(Records)
      /\ tx.reqHeaders \in HeadersType /\ tx.respHeaders \in HeadersType
  BY DEF TypeOK, TxType
<1>2. r.tag \notin HeaderTags
  BY ProcessRecordFields
<1>3. Logged(tx.records, tx.reqHeaders, FALSE) /\ Logged(tx.records, tx.respHeaders, TRUE)
  BY SidesLogged
<1> HIDE DEF r
<1>4. Logged(Append(tx.records, r), tx'.reqHeaders, FALSE)
  BY <1>1, <1>2, <1>3, OtherLogged
<1>5. Logged(Append(tx.records, r), tx'.respHeaders, TRUE)
  BY <1>1, <1>2, <1>3, OtherLogged
<1>6. tx'.records = Append(tx.records, r)
  BY DEF r
<1> QED BY <1>4, <1>5, <1>6 DEF ReceivedAsLogged, Logged, Ordinary

\* A header record: its side receives its value while the phase is the client's, the
\* other side receives nothing (parser.go, 150-171).
LEMMA HeaderStep ==
  ASSUME ReceivedInv, NEW l \in Lines, HeaderRecord(l)
  PROVE  ReceivedAsLogged'
<1> DEFINE r == ProcessRecord(l)
           t == WithRecord(tx, l)
           c == CanonicalHeaderName[l.name]
           h == HeadersOf(tx, l.tag)
           g == IF clientHeaders THEN Add(h, l.name, l.value, "Received")
                ELSE AddProcessedHeaders(h, l.name, l.value)
           modified == clientHeaders /\ IsVarnishModifiedHeader(l.name, l.tag)
           \* what the map of a side receives
           New(records, old, n, resp) == IF Receives(records, r, n, resp)
                                         THEN Append(old[n].receivedValues, r.value)
                                         ELSE old[n].receivedValues
<1>1. /\ l.name \in Spellings /\ l.value \in Values /\ l.tag \in HeaderTags
      /\ pc = "inner"
  BY ProcessRecordType DEF HeaderRecord, Scan
<1>2. /\ tx \in TxType /\ tx.records \in Seq(Records)
      /\ tx.reqHeaders \in HeadersType /\ tx.respHeaders \in HeadersType
  BY DEF ReceivedInv, TypeOK, TxType
<1>3. r.tag = l.tag /\ r.name = c /\ r.value = l.value
  <2>1. l \in [tag : HeaderTags \cup UnsetTags, name : Spellings, value : Values]
    BY <1>1, LinesAssumption
  <2>2. r = [l EXCEPT !.name = c]
    BY <1>1 DEF ProcessRecord
  <2> QED BY <2>1, <2>2
<1>4. /\ t \in TxType /\ t.records = Append(tx.records, r)
      /\ t.reqHeaders = tx.reqHeaders /\ t.respHeaders = tx.respHeaders
  BY <1>2, WithRecordType DEF WithRecord, TxType
<1>5. /\ tx'.records = Append(tx.records, r)
      /\ IF modified THEN tx'.reqHeaders = tx.reqHeaders /\ tx'.respHeaders = tx.respHeaders
         ELSE IF IsRespTag(l.tag) THEN tx'.reqHeaders = tx.reqHeaders /\ tx'.respHeaders = g
         ELSE tx'.reqHeaders = g /\ tx'.respHeaders = tx.respHeaders
  <2> HIDE DEF r, t, g
  <2>1. tx' = IF modified THEN t ELSE WithHeaders(t, l.tag, g)
    BY DEF HeaderRecord, t, g
  <2> HIDE DEF modified
  <2> QED BY <1>4, <2>1 DEF WithHeaders, TxType
<1>6. clientHeaders <=> InClientPhase(tx.records, Len(tx.records) + 1)
  BY <1>1 DEF ReceivedInv, PhaseIsKnown
<1>7. Logged(tx.records, tx.reqHeaders, FALSE) /\ Logged(tx.records, tx.respHeaders, TRUE)
  BY SidesLogged DEF ReceivedInv
<1>8. h \in HeadersType /\ h = IF IsRespTag(l.tag) THEN tx.respHeaders ELSE tx.reqHeaders
  BY <1>2 DEF HeadersOf
<1> HIDE DEF h, r
<1>9. \A n \in Ordinary :
        g[n].receivedValues = IF n = c /\ clientHeaders THEN Append(h[n].receivedValues, r.value)
                              ELSE h[n].receivedValues
  BY <1>1, <1>3, <1>8, AddReceives, ProcessedReceives DEF Ordinary, HdrState
<1> HIDE DEF g
<1>10. modified => c \notin Ordinary
  BY DEF Ordinary, IsVarnishModifiedHeader
<1>11. \A n, resp : Receives(tx.records, r, n, resp) <=>
                      IsRespTag(l.tag) = resp /\ n = c /\ clientHeaders
  BY <1>1, <1>3, <1>6 DEF Receives
<1> HIDE DEF c, modified
<1>12. IsRespTag(l.tag) \in BOOLEAN
  BY DEF IsRespTag
<1>13. \A n \in Ordinary :
         /\ tx'.reqHeaders[n].receivedValues = New(tx.records, tx.reqHeaders, n, FALSE)
         /\ tx'.respHeaders[n].receivedValues = New(tx.records, tx.respHeaders, n, TRUE)
  BY <1>5, <1>8, <1>9, <1>10, <1>11, <1>12
<1>14. Logged(Append(tx.records, r), tx'.reqHeaders, FALSE)
       /\ Logged(Append(tx.records, r), tx'.respHeaders, TRUE)
  BY <1>1, <1>2, <1>3, <1>7, <1>13, ReadLogged
<1> QED BY <1>5, <1>14 DEF ReceivedAsLogged, Logged, Ordinary

\* Every line keeps the received values as logged (parser.go, 44-213).
LEMMA ReceivedStep ==
  ASSUME ReceivedInv, NEW l \in Lines, ReadLine(l)
  PROVE  ReceivedAsLogged'
<1> DEFINE t == WithRecord(tx, l)
<1>1. /\ TypeOK /\ ReceivedAsLogged /\ AsideAreModified
      /\ tx \in TxType /\ tempHeaders \in HeadersType
      /\ tx.reqHeaders \in HeadersType /\ tx.respHeaders \in HeadersType
  BY DEF ReceivedInv, TypeOK, TxType
<1>2. /\ t \in TxType /\ t.records = Append(tx.records, ProcessRecord(l))
      /\ t.reqHeaders = tx.reqHeaders /\ t.respHeaders = tx.respHeaders
  BY <1>1, WithRecordType DEF WithRecord, TxType
<1> HIDE DEF t
<1>3. CASE SkipOuter(l) \/ BadTransaction(l) \/ MissingBegin(l) \/ SkipShort(l) \/ BadRecord(l)
  <2>1. UNCHANGED tx
    BY <1>3 DEF SkipOuter, BadTransaction, MissingBegin, SkipShort, BadRecord
  <2> QED BY <1>1, <2>1 DEF ReceivedAsLogged
<1>4. CASE StartTransaction(l)
  <2>1. tx'.records = <<>> /\ tx'.reqHeaders = NoHeaders /\ tx'.respHeaders = NoHeaders
    BY <1>4 DEF StartTransaction, NewTransaction
  <2>2. \A n \in Names : NoHeaders[n].receivedValues = <<>>
    BY DEF NoHeaders, NoHeader
  <2>3. \A n, resp : ReceivedRecords(<<>>, n, resp) = {}
    BY DEF ReceivedRecords
  <2>4. \A n, resp : AsLogged(<<>>, <<>>, n, resp)
    BY <2>3, FS_EmptySet DEF AsLogged
  <2> QED BY <2>1, <2>2, <2>4 DEF ReceivedAsLogged
<1>5. CASE StoreRecord(l) \/ DuplicateBegin(l) \/ Status(l) \/ End(l)
  <2>1. tx' = t /\ l.tag \notin HeaderTags
    BY <1>5 DEF StoreRecord, DuplicateBegin, Status, End, HeaderTags, t
  <2> QED BY <1>1, <1>2, <2>1, OtherStep
<1>6. CASE ReadBegin(l) \/ Link(l)
  <2>1. /\ \/ tx' = t \/ \E p : tx' = [t EXCEPT !.parent = p]
           \/ \E cs : tx' = [t EXCEPT !.children = cs]
        /\ l.tag \notin HeaderTags
    BY <1>6 DEF ReadBegin, Link, HeaderTags, t
  <2>2. /\ tx'.records = t.records
        /\ tx'.reqHeaders = t.reqHeaders /\ tx'.respHeaders = t.respHeaders
    BY <1>2, <2>1 DEF TxType
  <2> QED BY <1>1, <1>2, <2>1, <2>2, OtherStep
<1>7. CASE VCLCall(l)
  <2>1. tx'.records = Append(tx.records, ProcessRecord(l)) /\ l.tag \notin HeaderTags
    BY <1>1, <1>7, RecordRead DEF VCLCall, HeaderTags
  <2> DEFINE reqs == MergeTempHeaders(t.reqHeaders, tempHeaders)
             resps == MergeTempHeaders(t.respHeaders, tempHeaders)
  <2>2. \A n \in Ordinary : /\ reqs[n].receivedValues = tx.reqHeaders[n].receivedValues
                            /\ resps[n].receivedValues = tx.respHeaders[n].receivedValues
    BY <1>1, <1>2, MergeReceives DEF AsideAreModified, Ordinary
  <2>3. \/ tx' = t
        \/ tx' = [t EXCEPT !.respHeaders = resps]
        \/ tx' = [t EXCEPT !.reqHeaders = reqs]
    BY <1>1, <1>7 DEF VCLCall, t, TypeOK
  <2> HIDE DEF reqs, resps
  <2>4. /\ tx'.reqHeaders = tx.reqHeaders \/ tx'.reqHeaders = reqs
        /\ tx'.respHeaders = tx.respHeaders \/ tx'.respHeaders = resps
    BY <1>2, <2>3 DEF TxType
  <2> QED BY <1>1, <2>1, <2>2, <2>4, OtherStep
<1>8. CASE HeaderRecord(l)
  BY <1>8, HeaderStep
<1>9. CASE HeaderUnset(l)
  <2>1. tx'.records = Append(tx.records, ProcessRecord(l)) /\ l.name \in Spellings
    BY <1>1, <1>9, RecordRead, ProcessRecordType DEF HeaderUnset
  <2>2. l.tag \notin HeaderTags
    BY <1>9 DEF HeaderUnset, HeaderTags, UnsetTags
  <2> DEFINE g == Delete(HeadersOf(tx, l.tag), l.name)
  <2>3. tx' = WithHeaders(t, l.tag, g)
    BY <1>9 DEF HeaderUnset, t
  <2>4. \A n \in Ordinary :
          g[n].receivedValues = HeadersOf(tx, l.tag)[n].receivedValues
    BY <1>1, <2>1, DeleteReceived DEF HeadersOf, Ordinary
  <2> HIDE DEF g
  <2>5. IF IsRespTag(l.tag) THEN tx'.reqHeaders = tx.reqHeaders /\ tx'.respHeaders = g
        ELSE tx'.reqHeaders = g /\ tx'.respHeaders = tx.respHeaders
    BY <1>2, <2>3 DEF WithHeaders, TxType
  <2>6. \A n \in Ordinary :
          /\ tx'.reqHeaders[n].receivedValues = tx.reqHeaders[n].receivedValues
          /\ tx'.respHeaders[n].receivedValues = tx.respHeaders[n].receivedValues
    BY <2>4, <2>5 DEF HeadersOf
  <2> QED BY <1>1, <2>1, <2>2, <2>6, OtherStep
<1> QED BY <1>3, <1>4, <1>5, <1>6, <1>7, <1>8, <1>9 DEF ReadLine

\* Whatever is logged, the received values of a name that Varnish does not change itself
\* are those of its header records of the client's phases, all of them and in their order
\* (parser.go, 103-193).
THEOREM ReceivedAsLoggedCorrect == Spec => []ReceivedAsLogged
<1>1. Init => ReceivedInv
  <2> SUFFICES ASSUME Init PROVE ReceivedInv
    OBVIOUS
  <2>1. tx.records = <<>> /\ tx.reqHeaders = NoHeaders /\ tx.respHeaders = NoHeaders
    BY DEF Init, NewTransaction
  <2>2. \A n \in Names : NoHeaders[n].receivedValues = <<>>
    BY DEF NoHeaders, NoHeader
  <2>3. \A n, resp : ReceivedRecords(<<>>, n, resp) = {}
    BY DEF ReceivedRecords
  <2>4. \A n, resp : AsLogged(<<>>, <<>>, n, resp)
    BY <2>3, FS_EmptySet DEF AsLogged
  <2>5. ReceivedAsLogged
    BY <2>1, <2>2, <2>4 DEF ReceivedAsLogged
  <2>6. PhaseIsKnown /\ AsideAreModified
    BY <2>2 DEF Init, PhaseIsKnown, AsideAreModified, Ordinary
  <2> QED BY <2>5, <2>6, InitType DEF ReceivedInv
<1>2. ReceivedInv /\ [Next]_vars => ReceivedInv'
  <2> SUFFICES ASSUME ReceivedInv, [Next]_vars PROVE ReceivedInv'
    OBVIOUS
  <2>1. TypeOK'
    BY NextType DEF ReceivedInv
  <2>2. CASE \E l \in Lines : ReadLine(l)
    BY <2>1, <2>2, PhaseStep, AsideStep, ReceivedStep DEF ReceivedInv
  <2>3. CASE EndOfInput \/ ScanError
    BY <2>1, <2>3 DEF EndOfInput, ScanError, ReceivedInv, PhaseIsKnown, AsideAreModified,
                      ReceivedAsLogged, locals
  <2>4. CASE UNCHANGED vars
    BY <2>1, <2>4 DEF vars, ReceivedInv, PhaseIsKnown, AsideAreModified, ReceivedAsLogged
  <2> QED BY <2>2, <2>3, <2>4 DEF Next
<1>3. ReceivedInv => ReceivedAsLogged
  BY DEF ReceivedInv
<1> QED BY <1>1, <1>2, <1>3, PTL DEF Spec

-----------------------------------------------------------------------------
(* The loops as sequences of maps *)

\* What the loop over the received values of a header goes through.
LoopReceived(f, h, n, values) ==
  /\ f[0] = h
  /\ \A i \in 1..Len(values) : f[i] = Add(f[i - 1], n, values[i], "Received")

LEMMA ReceivedLoops ==
  ASSUME NEW h \in HeadersType, NEW n \in Names, NEW values \in Seq(Values)
  PROVE  \E f : /\ LoopReceived(f, h, n, values)
                /\ MergeReceived(h, n, values) = f[Len(values)]
<1> DEFINE N == Len(values)
           Body(f) == [i \in 0..N |-> IF i = 0 THEN h
                                      ELSE Add(f[i - 1], n, values[i], "Received")]
<1>1. N \in Nat /\ n \in Spellings
  BY LenProperties, SpellingsAssumption DEF Names
<1>2. \E f : f = Body(f)
  <2> DEFINE step == [i \in 1..N |-> [g \in HeadersType |-> Add(g, n, values[i], "Received")]]
  <2>1. \A i \in 1..N : \A g \in HeadersType : Add(g, n, values[i], "Received") \in HeadersType
    BY <1>1, AddType, ElementOfSeq DEF HdrState
  <2>2. step \in [1..N -> [HeadersType -> HeadersType]]
    BY <2>1
  <2>3. PICK f : Computes(f, N, HeadersType, h, step)
    <3> HIDE DEF step, N
    <3> QED BY <1>1, <2>2, Recursion
  <2> HIDE DEF N
  <2>4. \A i \in 1..N : f[i] = Add(f[i - 1], n, values[i], "Received")
    <3>1. \A i \in 1..N : i - 1 \in 0..N
      BY <1>1
    <3> QED BY <2>3, <3>1 DEF Computes
  <2> HIDE DEF step
  <2>5. f = [i \in 0..N |-> f[i]] /\ f[0] = h
    BY <2>3 DEF Computes
  <2>6. \A i \in 0..N : i # 0 => i \in 1..N
    BY <1>1
  <2>7. f = Body(f)
    BY <2>4, <2>5, <2>6
  <2> QED BY <2>7
<1> DEFINE c == CHOOSE f : f = Body(f)
<1>3. MergeReceived(h, n, values) = c[N]
  BY DEF MergeReceived
<1>4. c = Body(c)
  <2> HIDE DEF Body
  <2> QED BY <1>2
<1>5. LoopReceived(c, h, n, values)
  <2> HIDE DEF c
  <2>1. c[0] = h
    BY <1>1, <1>4
  <2>2. \A i \in 1..N : i \in 0..N /\ i # 0
    BY <1>1
  <2>3. \A i \in 1..N : c[i] = Add(c[i - 1], n, values[i], "Received")
    <3> HIDE DEF N
    <3> QED BY <1>4, <2>2
  <2> QED BY <2>1, <2>3 DEF LoopReceived
<1> HIDE DEF c
<1> QED BY <1>3, <1>5

\* One value of the other loop.
Replay(h, n, v) == IF v.state = "Deleted" THEN Delete(h, n) ELSE Add(h, n, v.value, v.state)

LoopProcessed(f, h, n, values) ==
  /\ f[0] = h
  /\ \A i \in 1..Len(values) : f[i] = Replay(f[i - 1], n, values[i])

LEMMA ProcessedLoops ==
  ASSUME NEW h \in HeadersType, NEW n \in Names, NEW values \in Seq(HdrValue)
  PROVE  \E f : /\ LoopProcessed(f, h, n, values)
                /\ MergeProcessed(h, n, values) = f[Len(values)]
<1> DEFINE N == Len(values)
           Body(f) == [i \in 0..N |->
                         IF i = 0 THEN h
                         ELSE IF values[i].state = "Deleted" THEN Delete(f[i - 1], n)
                         ELSE Add(f[i - 1], n, values[i].value, values[i].state)]
<1>1. N \in Nat /\ n \in Spellings
  BY LenProperties, SpellingsAssumption DEF Names
<1>2. \E f : f = Body(f)
  <2> DEFINE step == [i \in 1..N |-> [g \in HeadersType |-> Replay(g, n, values[i])]]
  <2>1. \A i \in 1..N : \A g \in HeadersType : Replay(g, n, values[i]) \in HeadersType
    <3>1. \A i \in 1..N : values[i] \in HdrValue
      BY ElementOfSeq
    <3>2. \A i \in 1..N : values[i].value \in Values /\ values[i].state \in HdrState
      BY <3>1 DEF HdrValue
    <3> QED BY <1>1, <3>2, AddType, DeleteType DEF Replay
  <2>2. step \in [1..N -> [HeadersType -> HeadersType]]
    BY <2>1
  <2>3. PICK f : Computes(f, N, HeadersType, h, step)
    <3> HIDE DEF step, N
    <3> QED BY <1>1, <2>2, Recursion
  <2> HIDE DEF N
  <2>4. \A i \in 1..N : f[i] = Replay(f[i - 1], n, values[i])
    <3>1. \A i \in 1..N : i - 1 \in 0..N
      BY <1>1
    <3> QED BY <2>3, <3>1 DEF Computes
  <2> HIDE DEF step
  <2>5. f = [i \in 0..N |-> f[i]] /\ f[0] = h
    BY <2>3 DEF Computes
  <2>6. \A i \in 0..N : i # 0 => i \in 1..N
    BY <1>1
  <2>7. \A i \in 1..N :
          f[i] = IF values[i].state = "Deleted" THEN Delete(f[i - 1], n)
                 ELSE Add(f[i - 1], n, values[i].value, values[i].state)
    BY <2>4 DEF Replay
  <2>8. f = Body(f)
    BY <2>5, <2>6, <2>7
  <2> QED BY <2>8
<1> DEFINE c == CHOOSE f : f = Body(f)
<1>3. MergeProcessed(h, n, values) = c[N]
  BY DEF MergeProcessed
<1>4. c = Body(c)
  <2> HIDE DEF Body
  <2> QED BY <1>2
<1>5. LoopProcessed(c, h, n, values)
  <2> HIDE DEF c
  <2>1. c[0] = h
    BY <1>1, <1>4
  <2>2. \A i \in 1..N : i \in 0..N /\ i # 0
    BY <1>1
  <2>3. \A i \in 1..N : c[i] = Replay(c[i - 1], n, values[i])
    <3> HIDE DEF N
    <3> QED BY <1>4, <2>2 DEF Replay
  <2> QED BY <2>1, <2>3 DEF LoopProcessed
<1> HIDE DEF c
<1> QED BY <1>3, <1>5

-----------------------------------------------------------------------------
(* One value *)

\* The id n has after a value was added to it.
IdOf(h, n) == IF h[n].id = 0 THEN Cardinality(Present(h)) + 1 ELSE h[n].id

\* Nothing but n has changed.
Elsewhere(g, h, n) == \A m \in Names : m # n => g[m] = h[m]

\* Headers.Add on a name that is not Host (header.go, 117-161).
LEMMA AddEffect ==
  ASSUME NEW h \in HeadersType, NEW n \in Names, n # HdrNameHost, NEW value, NEW state
  PROVE  LET g == Add(h, n, value, state)
         IN  /\ Elsewhere(g, h, n)
             /\ g[n].id = IdOf(h, n)
             /\ g[n].values = Append(IF state = "Modified" THEN <<>> ELSE h[n].values,
                                     [value |-> value, state |-> state])
             /\ g[n].receivedValues = IF state = "Received"
                                      THEN Append(h[n].receivedValues, value)
                                      ELSE h[n].receivedValues
<1>1. CanonicalHeaderName[n] = n
  BY SpellingsAssumption
<1> QED BY <1>1 DEF Add, HeadersType, Elsewhere, IdOf

LEMMA DeleteEffect ==
  ASSUME NEW h \in HeadersType, NEW n \in Names
  PROVE  LET g == Delete(h, n)
         IN  /\ Elsewhere(g, h, n)
             /\ g[n].id = h[n].id
             /\ g[n].values = MarkDeleted(h[n].values)
             /\ g[n].receivedValues = h[n].receivedValues
<1>1. CanonicalHeaderName[n] = n
  BY SpellingsAssumption
<1> QED BY <1>1 DEF Delete, HeadersType, Header, Elsewhere

\* Adding to n again, or marking its values, gives it no other id.
LEMMA SameId ==
  ASSUME NEW h \in HeadersType, NEW g \in HeadersType, NEW n \in Names, Elsewhere(g, h, n)
  PROVE  /\ IdOf(h, n) \in Nat \ {0}
         /\ g[n].id = h[n].id => IdOf(g, n) = IdOf(h, n)
         /\ g[n].id = IdOf(h, n) => IdOf(g, n) = IdOf(h, n)
<1>1. Cardinality(Present(h)) \in Nat
  BY CardinalityPresent DEF Present
<1>2. h[n].id \in Nat
  BY DEF HeadersType, Header
<1>3. IdOf(h, n) \in Nat \ {0}
  BY <1>1, <1>2 DEF IdOf
<1>4. g[n].id = h[n].id => Present(g) = Present(h)
  BY DEF Present, Elsewhere
<1> QED BY <1>3, <1>4 DEF IdOf

\* One more element of t behind s.
LEMMA ConcatMore ==
  ASSUME NEW S, NEW s \in Seq(S), NEW t \in Seq(S), NEW i \in 0..Len(t), i < Len(t)
  PROVE  Append(s \o SubSeq(t, 1, i), t[i + 1]) = s \o SubSeq(t, 1, i + 1)
<1>1. Len(t) \in Nat /\ i + 1 \in 1..Len(t) /\ (i + 1) - 1 = i /\ 1 \in 1..Len(t)
  BY LenProperties
<1>2. SubSeq(t, 1, i + 1) = SubSeq(t, 1, i) \o <<t[i + 1]>>
  <2>1. i + 1 \in 1..Len(t) /\ 1 \in 1..Len(t)
    BY <1>1
  <2>2. SubSeq(t, 1, i + 1) = SubSeq(t, 1, (i + 1) - 1) \o <<t[i + 1]>>
    BY <2>1, SubSeqRecursiveSecond
  <2> QED BY <1>1, <2>2
<1>3. SubSeq(t, 1, i) \in Seq(S) /\ t[i + 1] \in S /\ <<t[i + 1]>> \in Seq(S)
  <2>1. t[i + 1] \in S
    BY <1>1, ElementOfSeq
  <2>2. \A k \in 1..i : t[k] \in S
    <3>1. \A k \in 1..i : k \in 1..Len(t)
      BY <1>1
    <3> QED BY <3>1, ElementOfSeq
  <2>3. SubSeq(t, 1, i) \in Seq(S)
    BY <2>2, SubSeqProperties
  <2> QED BY <2>1, <2>3
<1>4. s \o SubSeq(t, 1, i) \in Seq(S)
  BY <1>3, ConcatProperties
<1>5. Append(s \o SubSeq(t, 1, i), t[i + 1]) = (s \o SubSeq(t, 1, i)) \o <<t[i + 1]>>
  BY <1>3, <1>4, AppendIsConcat
<1>6. (s \o SubSeq(t, 1, i)) \o <<t[i + 1]>> = s \o (SubSeq(t, 1, i) \o <<t[i + 1]>>)
  <2> DEFINE u == SubSeq(t, 1, i)
             v == <<t[i + 1]>>
  <2>1. s \in Seq(S) /\ u \in Seq(S) /\ v \in Seq(S)
    BY <1>3
  <2> HIDE DEF u, v
  <2>2. (s \o u) \o v = s \o (u \o v)
    BY <2>1, ConcatAssociative, SMTT(20)
  <2> QED BY <2>2 DEF u, v
<1> DEFINE shorter == SubSeq(t, 1, i)
           longer == SubSeq(t, 1, i + 1)
           last == t[i + 1]
<1>7. /\ longer = shorter \o <<last>>
      /\ Append(s \o shorter, last) = (s \o shorter) \o <<last>>
      /\ (s \o shorter) \o <<last>> = s \o (shorter \o <<last>>)
  BY <1>2, <1>5, <1>6
<1>8. Append(s \o shorter, last) = s \o longer
  <2> HIDE DEF shorter, longer, last
  <2> QED BY <1>7
<1> QED BY <1>8

\* None of them, and all of them.
LEMMA ConcatNoneAndAll ==
  ASSUME NEW S, NEW s \in Seq(S), NEW t \in Seq(S)
  PROVE  s \o SubSeq(t, 1, 0) = s /\ s \o SubSeq(t, 1, Len(t)) = s \o t
<1>1. SubSeq(t, 1, 0) = <<>>
  BY SubSeqEmpty
<1> QED BY <1>1, ConcatEmptySeq, SubSeqFull

-----------------------------------------------------------------------------
(* One header *)

AsReceived(values) == [i \in DOMAIN values |-> [value |-> values[i], state |-> "Received"]]

LEMMA AsReceivedType ==
  ASSUME NEW values \in Seq(Values)
  PROVE  /\ AsReceived(values) \in Seq(HdrValue) /\ Len(AsReceived(values)) = Len(values)
         /\ \A i \in 1..Len(values) :
              AsReceived(values)[i] = [value |-> values[i], state |-> "Received"]
<1>1. DOMAIN values = 1..Len(values) /\ Len(values) \in Nat
  BY LenProperties
<1>2. \A i \in 1..Len(values) : [value |-> values[i], state |-> "Received"] \in HdrValue
  <2>1. \A i \in 1..Len(values) : values[i] \in Values
    BY ElementOfSeq
  <2> QED BY <2>1 DEF HdrValue, HdrState
<1>3. AsReceived(values) = [i \in 1..Len(values) |-> [value |-> values[i], state |-> "Received"]]
  BY <1>1 DEF AsReceived
<1>4. AsReceived(values) \in Seq(HdrValue)
  BY <1>1, <1>2, <1>3, IsASeq
<1>5. DOMAIN AsReceived(values) = 1..Len(values)
  BY <1>3
<1>6. Len(AsReceived(values)) = Len(values)
  BY <1>1, <1>4, <1>5, LenProperties
<1> QED BY <1>3, <1>4, <1>6

\* The received values are added behind what is there, to both lists (parser.go,
\* 371-375).
LEMMA ReceivedMerged ==
  ASSUME NEW h \in HeadersType, NEW n \in Names, n # HdrNameHost, NEW values \in Seq(Values)
  PROVE  LET g == MergeReceived(h, n, values)
         IN  /\ g \in HeadersType /\ Elsewhere(g, h, n)
             /\ g[n].values = h[n].values \o AsReceived(values)
             /\ g[n].receivedValues = h[n].receivedValues \o values
             /\ g[n].id = IF values = <<>> THEN h[n].id ELSE IdOf(h, n)
<1>1. PICK f : /\ LoopReceived(f, h, n, values)
               /\ MergeReceived(h, n, values) = f[Len(values)]
  BY ReceivedLoops
<1> DEFINE N == Len(values)
           all == AsReceived(values)
           Right(i, g) ==
             /\ g \in HeadersType /\ Elsewhere(g, h, n)
             /\ g[n].values = h[n].values \o SubSeq(all, 1, i)
             /\ g[n].receivedValues = h[n].receivedValues \o SubSeq(values, 1, i)
             /\ g[n].id = IF i = 0 THEN h[n].id ELSE IdOf(h, n)
           T == {i \in 0..N : Right(i, f[i])}
<1>2. /\ N \in Nat /\ all \in Seq(HdrValue) /\ Len(all) = N
      /\ \A i \in 1..N : all[i] = [value |-> values[i], state |-> "Received"]
  BY LenProperties, AsReceivedType
<1>3. h[n].values \in Seq(HdrValue) /\ h[n].receivedValues \in Seq(Values)
  BY DEF HeadersType, Header
<1>4. /\ h[n].values \o SubSeq(all, 1, 0) = h[n].values
      /\ h[n].values \o SubSeq(all, 1, N) = h[n].values \o all
  <2> HIDE DEF all, N
  <2>1. SubSeq(all, 1, N) = SubSeq(all, 1, Len(all))
    BY <1>2
  <2> QED BY <1>2, <1>3, <2>1, ConcatNoneAndAll
<1>5. /\ h[n].receivedValues \o SubSeq(values, 1, 0) = h[n].receivedValues
      /\ h[n].receivedValues \o SubSeq(values, 1, N) = h[n].receivedValues \o values
  BY <1>3, ConcatNoneAndAll
<1> HIDE DEF all
<1>6. 0 \in T
  <2>1. f[0] = h
    BY <1>1 DEF LoopReceived
  <2>2. Elsewhere(h, h, n)
    BY DEF Elsewhere
  <2>3. Right(0, h)
    BY <1>4, <1>5, <2>2
  <2>4. 0 \in 0..N
    BY <1>2
  <2> HIDE DEF Right, N
  <2> QED BY <2>1, <2>3, <2>4
<1>7. ASSUME NEW i \in 0..N, i \in T, i < N
      PROVE  i + 1 \in T
  <2> DEFINE g == f[i]
             k == i + 1
  <2>1. k \in 1..N /\ k \in 0..N /\ k # 0 /\ i \in 0..N /\ k - 1 = i
    BY <1>2, <1>7
  <2>2. f[k] = Add(g, n, values[k], "Received")
    BY <1>1, <2>1 DEF LoopReceived
  <2>3. Right(i, g)
    BY <1>7
  <2> HIDE DEF g, N, k
  <2>4. /\ Elsewhere(f[k], g, n) /\ f[k][n].id = IdOf(g, n)
        /\ f[k][n].values = Append(g[n].values, all[k])
        /\ f[k][n].receivedValues = Append(g[n].receivedValues, values[k])
    <3>1. all[k] = [value |-> values[k], state |-> "Received"]
      BY <1>2, <2>1
    <3>2. g \in HeadersType
      BY <2>3
    <3>3. LET a == Add(g, n, values[k], "Received")
          IN  /\ Elsewhere(a, g, n)
              /\ a[n].id = IdOf(g, n)
              /\ a[n].values = Append(g[n].values, [value |-> values[k], state |-> "Received"])
              /\ a[n].receivedValues = Append(g[n].receivedValues, values[k])
      <4> HIDE DEF T, Right
      <4> DEFINE r == "Received"
      <4>1. r # "Modified" /\ r = "Received"
        OBVIOUS
      <4> HIDE DEF r
      <4>2. LET a == Add(g, n, values[k], r)
            IN  /\ Elsewhere(a, g, n)
                /\ a[n].id = IdOf(g, n)
                /\ a[n].values = Append(IF r = "Modified" THEN <<>> ELSE g[n].values,
                                        [value |-> values[k], state |-> r])
                /\ a[n].receivedValues = IF r = "Received"
                                         THEN Append(g[n].receivedValues, values[k])
                                         ELSE g[n].receivedValues
        BY <3>2, AddEffect
      <4> QED BY <4>1, <4>2
    <3> QED BY <2>2, <3>1, <3>3
  <2>5. f[k] \in HeadersType
    <3>1. values[k] \in Values
      BY <2>1, ElementOfSeq DEF N
    <3>2. n \in Spellings
      BY SpellingsAssumption DEF Names
    <3> QED BY <2>2, <2>3, <3>1, <3>2, AddType DEF HdrState
  <2>6. f[k][n].id = IdOf(h, n)
    BY <2>3, <2>4, SameId
  <2>7. f[k][n].values = h[n].values \o SubSeq(all, 1, k)
    <3>1. Append(h[n].values \o SubSeq(all, 1, i), all[i + 1])
            = h[n].values \o SubSeq(all, 1, i + 1)
      BY <1>2, <1>3, <1>7, ConcatMore
    <3> QED BY <2>3, <2>4, <3>1 DEF k
  <2>8. f[k][n].receivedValues = h[n].receivedValues \o SubSeq(values, 1, k)
    <3>1. Append(h[n].receivedValues \o SubSeq(values, 1, i), values[i + 1])
            = h[n].receivedValues \o SubSeq(values, 1, i + 1)
      BY <1>3, <1>7, ConcatMore DEF N
    <3> QED BY <2>3, <2>4, <3>1 DEF k
  <2>9. Right(k, f[k])
    BY <2>1, <2>3, <2>4, <2>5, <2>6, <2>7, <2>8 DEF Elsewhere
  <2> HIDE DEF Right
  <2>10. k \in T
    BY <2>1, <2>9
  <2> QED BY <2>10 DEF k
<1>8. N \in T
  <2> HIDE DEF T
  <2>1. 0..N \subseteq T
    BY <1>2, <1>6, <1>7, UpTo
  <2> QED BY <1>2, <2>1
<1>9. values = <<>> <=> N = 0
  BY EmptySeq
<1> QED BY <1>1, <1>4, <1>5, <1>8, <1>9 DEF all

\* What Live leaves: the values behind the deleted ones.
LEMMA LiveIsRest ==
  ASSUME NEW values \in Seq(HdrValue), WellFormedValues(values)
  PROVE  LET d == NDeleted(values)
         IN  /\ d \in 0..Len(values) /\ Len(values) \in Nat
             /\ Live(values) \in Seq(HdrValue) /\ Len(Live(values)) = Len(values) - d
             /\ \A i \in 1..Len(values) : values[i].state = "Deleted" <=> i <= d
             /\ \A j \in 1..(Len(values) - d) : Live(values)[j] = values[d + j]
<1> DEFINE d == NDeleted(values)
<1>1. /\ d \in 0..Len(values) /\ Len(values) \in Nat
      /\ \A i \in 1..Len(values) : values[i].state = "Deleted" <=> i <= d
  BY DeletedFirst, LenProperties
<1>2. Live(values) = SubSeq(values, d + 1, Len(values))
  BY DEF Live
<1> HIDE DEF d
<1>3. \A i \in (d + 1)..Len(values) : values[i] \in HdrValue
  <2>1. \A i \in (d + 1)..Len(values) : i \in 1..Len(values)
    BY <1>1
  <2> QED BY <2>1, ElementOfSeq
<1>4. /\ Live(values) \in Seq(HdrValue)
      /\ Len(Live(values)) = IF d + 1 <= Len(values) THEN Len(values) - (d + 1) + 1 ELSE 0
      /\ \A j \in 1..(Len(values) - (d + 1) + 1) : Live(values)[j] = values[(d + 1) + j - 1]
  <2>1. d + 1 \in Int /\ Len(values) \in Int
    BY <1>1
  <2> QED BY <1>2, <1>3, <2>1, SubSeqProperties
<1>5. Len(Live(values)) = Len(values) - d
  BY <1>1, <1>4
<1>6. \A j \in 1..(Len(values) - d) : /\ j \in 1..(Len(values) - (d + 1) + 1)
                                      /\ (d + 1) + j - 1 = d + j
  BY <1>1
<1>7. \A j \in 1..(Len(values) - d) : Live(values)[j] = values[d + j]
  BY <1>4, <1>6
<1> QED BY <1>1, <1>4, <1>5, <1>7 DEF d

\* Values that were deleted once stay as they are.
LEMMA MarkedStay ==
  ASSUME NEW values \in Seq(HdrValue)
  PROVE  MarkDeleted(MarkDeleted(values)) = MarkDeleted(values)
BY DEF MarkDeleted

\* A live value is added behind those that are left; a modified one is alone.
Alone(values) == Live(values) # <<>> /\ Live(values)[1].state = "Modified"

Marked(h, n, values) ==
  IF NDeleted(values) > 0 THEN MarkDeleted(h[n].values) ELSE h[n].values

\* The other values: the deleted ones, which come first, delete what is there, and the
\* live ones are added behind it (parser.go, 376-383).
LEMMA ProcessedMerged ==
  ASSUME NEW h \in HeadersType, NEW n \in Names, n # HdrNameHost,
         NEW values \in Seq(HdrValue), WellFormedValues(values),
         \A i \in DOMAIN values : values[i].state # "Received"
  PROVE  LET g == MergeProcessed(h, n, values)
         IN  /\ g \in HeadersType /\ Elsewhere(g, h, n)
             /\ g[n].values = IF Alone(values) THEN Live(values)
                              ELSE Marked(h, n, values) \o Live(values)
             /\ g[n].receivedValues = h[n].receivedValues
             /\ g[n].id = IF Live(values) = <<>> THEN h[n].id ELSE IdOf(h, n)
<1>1. PICK f : /\ LoopProcessed(f, h, n, values)
               /\ MergeProcessed(h, n, values) = f[Len(values)]
  BY ProcessedLoops
<1> DEFINE N == Len(values)
           d == NDeleted(values)
           kept == Live(values)
           base == IF Alone(values) THEN <<>> ELSE Marked(h, n, values)
           Right(i, g) ==
             /\ g \in HeadersType /\ Elsewhere(g, h, n)
             /\ g[n].receivedValues = h[n].receivedValues
             /\ i <= d => /\ g[n].id = h[n].id
                          /\ g[n].values = IF i = 0 THEN h[n].values
                                           ELSE MarkDeleted(h[n].values)
             /\ i > d => /\ g[n].id = IdOf(h, n)
                         /\ g[n].values = base \o SubSeq(kept, 1, i - d)
           T == {i \in 0..N : Right(i, f[i])}
<1>2. /\ d \in 0..N /\ N \in Nat /\ kept \in Seq(HdrValue) /\ Len(kept) = N - d
      /\ \A i \in 1..N : values[i].state = "Deleted" <=> i <= d
      /\ \A j \in 1..(N - d) : kept[j] = values[d + j]
  BY LiveIsRest
<1>3. h[n].values \in Seq(HdrValue)
  BY DEF HeadersType, Header
<1>4. Marked(h, n, values) \in Seq(HdrValue) /\ base \in Seq(HdrValue)
  BY <1>3, MarkDeletedType DEF Marked
<1>5. Marked(h, n, values) = IF d > 0 THEN MarkDeleted(h[n].values) ELSE h[n].values
  BY DEF Marked
<1>6. Alone(values) <=> kept # <<>> /\ kept[1].state = "Modified"
  BY DEF Alone
<1>7. \A j \in 1..(N - d) : /\ kept[j].state \notin {"Deleted", "Received"}
                            /\ kept[j].state = "Modified" => j = 1
  <2>1. \A j \in 1..(N - d) : d + j \in 1..N /\ ~(d + j <= d)
    BY <1>2
  <2>2. DOMAIN values = 1..N
    BY LenProperties
  <2>3. \A j \in 1..Len(kept) : kept[j].state = "Modified" => j = 1
    BY LiveElements
  <2> QED BY <1>2, <2>1, <2>2, <2>3
<1> HIDE DEF kept, d
<1>8. 0 \in T
  <2>1. f[0] = h
    BY <1>1 DEF LoopProcessed
  <2>2. 0 \in 0..N /\ 0 <= d /\ ~(0 > d)
    BY <1>2
  <2> QED BY <2>1, <2>2 DEF Elsewhere
<1>9. ASSUME NEW i \in 0..N, i \in T, i < N
      PROVE  i + 1 \in T
  <2> DEFINE g == f[i]
             k == i + 1
  <2>1. /\ k \in 1..N /\ k \in 0..N /\ k # 0 /\ i \in 0..N /\ k - 1 = i
        /\ (k <= d => i <= d) /\ (k > d => (i <= d <=> i = d))
    <3> HIDE DEF N, Right, T
    <3> QED BY <1>2, <1>9
  <2>2. f[k] = Replay(g, n, values[k])
    BY <1>1, <2>1 DEF LoopProcessed
  <2>3. Right(i, g)
    BY <1>9
  <2>4. g \in HeadersType /\ Elsewhere(g, h, n) /\ g[n].receivedValues = h[n].receivedValues
    BY <2>3
  <2>5. n \in Spellings
    BY SpellingsAssumption DEF Names
  <2>6. CASE k <= d
    <3>1. values[k].state = "Deleted"
      BY <1>2, <2>1, <2>6
    <3>2. f[k] = Delete(g, n)
      BY <2>2, <3>1 DEF Replay
    <3>3. f[k] \in HeadersType
      BY <2>4, <2>5, <3>2, DeleteType
    <3>4. /\ Elsewhere(f[k], g, n) /\ f[k][n].id = g[n].id
          /\ f[k][n].values = MarkDeleted(g[n].values)
          /\ f[k][n].receivedValues = g[n].receivedValues
      <4> HIDE DEF T, Right, g
      <4> QED BY <2>4, <3>2, DeleteEffect
    <3>5. /\ g[n].id = h[n].id
          /\ g[n].values = IF i = 0 THEN h[n].values ELSE MarkDeleted(h[n].values)
      BY <2>1, <2>3, <2>6
    <3>6. f[k][n].values = MarkDeleted(h[n].values)
      BY <1>3, <3>4, <3>5, MarkedStay
    <3>7. ~(k > d)
      BY <1>2, <2>1, <2>6
    <3>8. Right(k, f[k])
      BY <2>1, <2>4, <3>3, <3>4, <3>5, <3>6, <3>7 DEF Elsewhere
    <3> HIDE DEF Right
    <3> QED BY <2>1, <3>8
  <2>7. CASE k > d
    <3> DEFINE j == i - d
               v == kept[j + 1]
    <3>1. /\ j \in 0..(N - d) /\ j < N - d /\ j + 1 \in 1..(N - d) /\ d + (j + 1) = k
          /\ (j + 1) - 1 = j /\ k - d = j + 1 /\ ~(k <= d) /\ (j = 0 <=> i <= d)
      <4>1. i \in Nat /\ N \in Nat /\ d \in Nat /\ i < N /\ d <= i /\ k = i + 1
        BY <1>2, <1>9, <2>1, <2>7
      <4> QED BY SMTT(30), <4>1
    <3>2. v = values[k] /\ v \in HdrValue /\ v.state \notin {"Deleted", "Received"}
      <4>1. v \in HdrValue
        BY <1>2, <3>1, ElementOfSeq
      <4> QED BY <1>2, <1>7, <3>1, <4>1
    <3> HIDE DEF v, j
    <3>3. f[k] = Add(g, n, v.value, v.state) /\ [value |-> v.value, state |-> v.state] = v
      BY <2>2, <3>2 DEF Replay, HdrValue
    <3>4. f[k] \in HeadersType
      BY <2>4, <2>5, <3>2, <3>3, AddType DEF HdrValue
    <3>5. /\ Elsewhere(f[k], g, n) /\ f[k][n].id = IdOf(g, n)
          /\ f[k][n].values = Append(IF v.state = "Modified" THEN <<>> ELSE g[n].values, v)
          /\ f[k][n].receivedValues = g[n].receivedValues
      <4> HIDE DEF T, Right, g
      <4> DEFINE state == v.state
                 value == v.value
      <4>1. state # "Received" /\ f[k] = Add(g, n, value, state)
        BY <3>2, <3>3
      <4> HIDE DEF state, value
      <4>2. /\ Elsewhere(f[k], g, n) /\ f[k][n].id = IdOf(g, n)
            /\ f[k][n].values = Append(IF state = "Modified" THEN <<>> ELSE g[n].values,
                                       [value |-> value, state |-> state])
            /\ f[k][n].receivedValues = g[n].receivedValues
        BY <2>4, <4>1, AddEffect
      <4> QED BY <3>3, <4>2 DEF state, value
    <3>6. f[k][n].id = IdOf(h, n)
      <4>1. g[n].id = h[n].id \/ g[n].id = IdOf(h, n)
        <5>1. i <= d \/ i > d
          <6> HIDE DEF N, Right, T
          <6> QED BY <1>2, <2>1
        <5> QED BY <2>3, <5>1
      <4> HIDE DEF T, Right, g
      <4> QED BY <2>4, <3>5, <4>1, SameId
    <3>7. (IF v.state = "Modified" THEN <<>> ELSE g[n].values) = base \o SubSeq(kept, 1, j)
      <4>1. CASE j = 0
        <5>1. base \o SubSeq(kept, 1, j) = base
          BY <1>2, <1>4, <4>1, ConcatNoneAndAll
        <5>2. g[n].values = Marked(h, n, values)
          <6>1. i = d /\ i <= d
            BY <2>1, <2>7, <3>1, <4>1
          <6>2. g[n].values = IF i = 0 THEN h[n].values ELSE MarkDeleted(h[n].values)
            BY <2>3, <6>1
          <6> QED BY <1>2, <1>5, <6>1, <6>2
        <5>3. v = kept[1] /\ kept # <<>>
          <6>1. v = kept[1] /\ Len(kept) # 0
            BY <1>2, <3>1, <4>1 DEF v
          <6> QED BY <6>1
        <5> QED BY <1>6, <5>1, <5>2, <5>3
      <4>2. CASE j # 0
        <5>1. v.state # "Modified"
          BY <1>7, <3>1, <4>2 DEF v
        <5>2. i > d
          BY <1>2, <2>1, <3>1, <4>2
        <5>3. g[n].values = base \o SubSeq(kept, 1, i - d)
          BY <2>3, <5>2
        <5> QED BY <5>1, <5>3 DEF j
      <4> QED BY <4>1, <4>2
    <3>8. f[k][n].values = base \o SubSeq(kept, 1, k - d)
      <4>1. Append(base \o SubSeq(kept, 1, j), kept[j + 1]) = base \o SubSeq(kept, 1, j + 1)
        <5> HIDE DEF base
        <5>1. j \in 0..Len(kept) /\ j < Len(kept)
          BY <1>2, <3>1
        <5> QED BY <1>2, <1>4, <5>1, ConcatMore
      <4> QED BY <3>1, <3>5, <3>7, <4>1 DEF v
    <3>9. Right(k, f[k])
      BY <2>4, <3>1, <3>4, <3>5, <3>6, <3>8 DEF Elsewhere
    <3> HIDE DEF Right
    <3> QED BY <2>1, <3>9
  <2>8. k <= d \/ k > d
    <3> HIDE DEF N, Right, T
    <3> QED BY <1>2, <2>1
  <2> QED BY <2>6, <2>7, <2>8
<1>10. Right(N, f[N])
  <2> HIDE DEF Right
  <2>1. 0..N \subseteq T
    <3> HIDE DEF T
    <3> QED BY <1>2, <1>8, <1>9, UpTo
  <2>2. N \in 0..N
    BY <1>2
  <2> QED BY <2>1, <2>2
<1>11. CASE N = d
  <2>1. kept = <<>> /\ N <= d /\ (N = 0 <=> ~(d > 0))
    BY <1>2, <1>11, EmptySeq
  <2>2. f[N][n].values = Marked(h, n, values) /\ f[N][n].id = h[n].id
    BY <1>5, <1>10, <2>1
  <2>3. Marked(h, n, values) \o kept = Marked(h, n, values) /\ ~Alone(values)
    BY <1>4, <1>6, <2>1, ConcatEmptySeq
  <2> QED BY <1>1, <1>10, <2>1, <2>2, <2>3 DEF kept
<1>12. CASE N # d
  <2>1. kept # <<>> /\ N > d
    <3>1. Len(kept) # 0 /\ N > d
      BY <1>2, <1>12
    <3> QED BY <3>1
  <2>2. f[N][n].values = base \o kept /\ f[N][n].id = IdOf(h, n)
    <3>1. f[N][n].values = base \o SubSeq(kept, 1, N - d) /\ f[N][n].id = IdOf(h, n)
      BY <1>10, <2>1
    <3>2. base \o SubSeq(kept, 1, Len(kept)) = base \o kept
      <4> HIDE DEF base
      <4> QED BY <1>2, <1>4, ConcatNoneAndAll
    <3> QED BY <1>2, <3>1, <3>2
  <2>3. <<>> \o kept = kept
    BY <1>2, ConcatEmptySeq
  <2> QED BY <1>1, <1>10, <2>1, <2>2, <2>3 DEF kept
<1> QED BY <1>11, <1>12

\* A header kept aside that the merge would add no value for.
Nothing(header) == header.receivedValues = <<>> /\ Live(header.values) = <<>>

\* What a round of the loop does: it makes k of g.
Rounded(k, g, n, header) ==
  /\ k \in HeadersType /\ Elsewhere(k, g, n)
  /\ g[n].id = 0 /\ g[n].values = <<>> /\ Nothing(header) => k[n] = g[n]
  /\ ~(g[n].id = 0 /\ Nothing(header)) =>
       k[n] = [id             |-> IdOf(g, n),
               values         |-> MergedValues(g[n].values, header),
               receivedValues |-> g[n].receivedValues \o header.receivedValues]

\* A header is what its fields are.
LEMMA SameHeader ==
  ASSUME NEW a \in Header, NEW b \in Header,
         a.id = b.id, a.values = b.values, a.receivedValues = b.receivedValues
  PROVE  a = b
BY DEF Header

\* What one header is merged to: a header that is not there and would get no value is
\* not created (parser.go, 369-384).
LEMMA HeaderMerged ==
  ASSUME NEW h \in HeadersType, NEW n \in Names, n # HdrNameHost,
         NEW header \in Header, WellFormedValues(header.values),
         \A i \in DOMAIN header.values : header.values[i].state # "Received"
  PROVE  Rounded(MergeHeader(h, n, header), h, n, header)
<1> DEFINE received == header.receivedValues
           values == header.values
           was == h[n]
           g == MergeReceived(h, n, received)
           k == MergeProcessed(g, n, values)
<1>1. received \in Seq(Values) /\ values \in Seq(HdrValue)
  BY DEF Header
<1>2. was.values \in Seq(HdrValue) /\ was.receivedValues \in Seq(Values) /\ was.id \in Nat
  BY DEF HeadersType, Header
<1>3. /\ g \in HeadersType /\ Elsewhere(g, h, n)
      /\ g[n].values = was.values \o AsReceived(received)
      /\ g[n].receivedValues = was.receivedValues \o received
      /\ g[n].id = IF received = <<>> THEN was.id ELSE IdOf(h, n)
  <2> HIDE DEF received
  <2> QED BY <1>1, ReceivedMerged
<1> HIDE DEF g
<1>4. /\ k \in HeadersType /\ Elsewhere(k, g, n)
      /\ k[n].values = IF Alone(values) THEN Live(values)
                       ELSE Marked(g, n, values) \o Live(values)
      /\ k[n].receivedValues = g[n].receivedValues
      /\ k[n].id = IF Live(values) = <<>> THEN g[n].id ELSE IdOf(g, n)
  <2>1. \A i \in DOMAIN values : values[i].state # "Received"
    OBVIOUS
  <2>2. WellFormedValues(values)
    OBVIOUS
  <2> HIDE DEF values
  <2> QED BY <1>1, <1>3, <2>1, <2>2, ProcessedMerged
<1> HIDE DEF k
<1>5. MergeHeader(h, n, header) = k
  BY DEF MergeHeader, k, g
<1>6. Elsewhere(k, h, n)
  BY <1>3, <1>4 DEF Elsewhere
<1>7. k[n] \in Header
  BY <1>4 DEF HeadersType
<1>8. ASSUME was.id = 0, was.values = <<>>, Nothing(header)
      PROVE  k[n] = was
  <2>1. received = <<>> /\ Live(values) = <<>> /\ ~Alone(values)
    BY <1>8 DEF Nothing, Alone
  <2>2. AsReceived(<<>>) = <<>>
    BY DEF AsReceived
  <2>3. g[n].values = <<>> /\ g[n].receivedValues = was.receivedValues /\ g[n].id = was.id
    BY <1>2, <1>3, <1>8, <2>1, <2>2, ConcatEmptySeq
  <2>4. MarkDeleted(<<>>) = <<>>
    BY DEF MarkDeleted
  <2>5. Marked(g, n, values) = <<>>
    BY <2>3, <2>4 DEF Marked
  <2>6. k[n].values = <<>> /\ k[n].receivedValues = was.receivedValues /\ k[n].id = was.id
    BY <1>4, <2>1, <2>3, <2>5
  <2>7. was \in Header
    BY DEF HeadersType
  <2> HIDE DEF was
  <2> QED BY <1>7, <1>8, <2>6, <2>7, SameHeader
<1>9. ASSUME ~(was.id = 0 /\ Nothing(header))
      PROVE  k[n] = [id             |-> IdOf(h, n),
                     values         |-> MergedValues(was.values, header),
                     receivedValues |-> was.receivedValues \o received]
  <2>1. k[n].id = IdOf(h, n)
    <3>1. IdOf(g, n) = IdOf(h, n)
      BY <1>3, SameId
    <3>2. CASE Live(values) # <<>>
      BY <1>4, <3>1, <3>2
    <3>3. CASE Live(values) = <<>> /\ received # <<>>
      BY <1>3, <1>4, <3>3
    <3>4. CASE Live(values) = <<>> /\ received = <<>>
      BY <1>3, <1>4, <1>9, <3>4 DEF Nothing, IdOf
    <3> QED BY <3>2, <3>3, <3>4
  <2>2. k[n].values = MergedValues(was.values, header)
    <3>1. MergedValues(was.values, header) =
            IF Live(values) # <<>> /\ Live(values)[1].state = "Modified" THEN Live(values)
            ELSE (IF NDeleted(values) > 0 THEN MarkDeleted(was.values \o AsReceived(received))
                  ELSE was.values \o AsReceived(received)) \o Live(values)
      BY DEF MergedValues, AsReceived
    <3> QED BY <1>3, <1>4, <3>1 DEF Alone, Marked
  <2>3. k[n].receivedValues = was.receivedValues \o received
    BY <1>3, <1>4
  <2> HIDE DEF was, received
  <2> QED BY <1>7, <2>1, <2>2, <2>3 DEF Header
<1> QED BY <1>4, <1>5, <1>6, <1>8, <1>9 DEF Rounded

-----------------------------------------------------------------------------
(* All headers *)

\* The header at place i of the sorted ones is the one with id i.
LEMMA SortedById ==
  ASSUME NEW temp, Good(temp)
  PROVE  LET sorted == GetSortedHeaders(temp)
             N      == Cardinality(Present(temp))
         IN  /\ N \in Nat /\ Len(sorted) = N
             /\ \A i \in 1..N : sorted[i] \in Present(temp) /\ temp[sorted[i]].id = i
             /\ \A n \in Present(temp) : temp[n].id \in 1..N
             /\ \A m, n \in Present(temp) : temp[m].id = temp[n].id => m = n
<1> DEFINE P == Present(temp)
           N == Cardinality(P)
           before(n) == {m \in P : temp[m].id < temp[n].id}
           sorted == GetSortedHeaders(temp)
<1>1. IsFiniteSet(P) /\ N \in Nat
  BY CardinalityPresent DEF Present
<1>2. {temp[n].id : n \in P} = 1..N
  BY DEF Good, HeadersWellFormed
<1>3. \A m, n \in P : temp[m].id = temp[n].id => m = n
  BY IdsDiffer DEF Good, HeadersWellFormed, Enumerated
<1> HIDE DEF P, N
<1>4. ASSUME NEW n \in P
      PROVE  Cardinality(before(n)) = temp[n].id - 1
  <2> DEFINE k == temp[n].id
             f == [m \in before(n) |-> temp[m].id]
             T == 1..(k - 1)
  <2>1. k \in 1..N
    BY <1>2
  <2>2. f \in [before(n) -> T]
    <3>1. ASSUME NEW m \in before(n)
          PROVE  temp[m].id \in T
      <4>1. temp[m].id \in 1..N /\ temp[m].id < k
        BY <1>2
      <4> QED BY <1>1, <2>1, <4>1
    <3> QED BY <3>1
  <2>3. \A l, m \in before(n) : f[l] = f[m] => l = m
    BY <1>3
  <2>4. \A i \in T : \E m \in before(n) : f[m] = i
    <3>1. ASSUME NEW i \in T
          PROVE  \E m \in before(n) : temp[m].id = i
      <4>1. i \in 1..N /\ i < k
        BY <1>1, <2>1
      <4> QED BY <1>2, <4>1
    <3> QED BY <3>1
  <2>5. IsFiniteSet(before(n)) /\ Cardinality(T) = k - 1
    <3>1. IsFiniteSet(before(n))
      BY <1>1, FS_Subset
    <3>2. Cardinality(T) = IF 1 > k - 1 THEN 0 ELSE (k - 1) - 1 + 1
      <4> HIDE DEF k
      <4>1. k - 1 \in Int
        BY <1>1, <2>1
      <4> QED BY <4>1, FS_Interval
    <3> HIDE DEF before, T
    <3> QED BY <1>1, <2>1, <3>1, <3>2
  <2> HIDE DEF before, f, T
  <2>6. f \in Surjection(before(n), T) /\ f \in Injection(before(n), T)
    BY <2>2, <2>3, <2>4 DEF Surjection, Injection, IsInjective
  <2>7. Cardinality(before(n)) = Cardinality(T)
    BY <2>5, <2>6, FS_Surjection
  <2> QED BY <2>5, <2>7
<1>5. sorted = [i \in 1..N |-> CHOOSE n \in P : Cardinality(before(n)) = i - 1]
  BY DEF GetSortedHeaders, P, N
<1>6. ASSUME NEW i \in 1..N
      PROVE  sorted[i] \in P /\ temp[sorted[i]].id = i
  <2>1. PICK n \in P : temp[n].id = i
    BY <1>2
  <2> HIDE DEF before
  <2>2. Cardinality(before(n)) = i - 1
    BY <1>4, <2>1
  <2> DEFINE c == CHOOSE m \in P : Cardinality(before(m)) = i - 1
  <2>3. c \in P /\ Cardinality(before(c)) = i - 1
    BY <2>2
  <2>4. sorted[i] = c
    BY <1>5
  <2> HIDE DEF c, sorted
  <2>5. temp[c].id - 1 = i - 1 /\ temp[c].id \in 1..N
    BY <1>2, <1>4, <2>3
  <2> QED BY <1>1, <2>3, <2>4, <2>5
<1>7. Len(sorted) = N
  <2>1. DOMAIN sorted = 1..N
    BY <1>5
  <2>2. sorted \in Seq(P)
    <3>1. sorted \in [1..N -> P]
      <4>1. \A i \in 1..N : sorted[i] \in P
        BY <1>6
      <4> HIDE DEF before
      <4>2. sorted = [i \in 1..N |-> sorted[i]]
        BY <1>5
      <4> HIDE DEF sorted
      <4> QED BY <4>1, <4>2
    <3> HIDE DEF sorted
    <3> QED BY <1>1, <3>1
  <2> HIDE DEF sorted
  <2> QED BY <1>1, <2>1, <2>2, LenProperties
<1> QED BY <1>1, <1>2, <1>3, <1>6, <1>7 DEF P, N

\* What the parser keeps aside: never Host, and nothing that is left as received.
Aside(temp) ==
  /\ HdrNameHost \notin Present(temp)
  /\ \A n \in Names : \A i \in DOMAIN temp[n].values : temp[n].values[i].state # "Received"

\* One round of the loop over the sorted headers.
LEMMA RoundMerged ==
  ASSUME NEW g \in HeadersType, NEW temp, Good(temp), Aside(temp), NEW n \in Present(temp)
  PROVE  Rounded(MergeHeader(g, n, temp[n]), g, n, temp[n])
<1>1. n \in Names /\ n # HdrNameHost
  BY DEF Present, Aside
<1>2. /\ temp[n] \in Header /\ WellFormedValues(temp[n].values)
      /\ \A i \in DOMAIN temp[n].values : temp[n].values[i].state # "Received"
  BY <1>1, GoodHeader DEF Aside
<1> QED BY <1>1, <1>2, HeaderMerged

LoopMerges(f, h, temp) ==
  /\ f[0] = h
  /\ \A i \in 1..Len(GetSortedHeaders(temp)) :
       f[i] = MergeHeader(f[i - 1], GetSortedHeaders(temp)[i], temp[GetSortedHeaders(temp)[i]])

LEMMA MergeLoops ==
  ASSUME NEW h \in HeadersType, NEW temp, Good(temp), Aside(temp)
  PROVE  \E f : /\ LoopMerges(f, h, temp)
                /\ MergeTempHeadersLoop(h, temp) = f[Len(GetSortedHeaders(temp))]
<1> DEFINE sorted == GetSortedHeaders(temp)
           N == Len(sorted)
           Body(f) == [i \in 0..N |-> IF i = 0 THEN h
                                      ELSE MergeHeader(f[i - 1], sorted[i], temp[sorted[i]])]
<1>1. N \in Nat /\ \A i \in 1..N : sorted[i] \in Present(temp)
  BY SortedById
<1>2. \E f : f = Body(f)
  <2> DEFINE step == [i \in 1..N |-> [g \in HeadersType |->
                                        MergeHeader(g, sorted[i], temp[sorted[i]])]]
  <2>1. \A i \in 1..N : \A g \in HeadersType :
          MergeHeader(g, sorted[i], temp[sorted[i]]) \in HeadersType
    <3> HIDE DEF sorted, N
    <3> QED BY <1>1, RoundMerged DEF Rounded
  <2> HIDE DEF sorted, N
  <2>2. step \in [1..N -> [HeadersType -> HeadersType]]
    BY <2>1
  <2>3. PICK f : Computes(f, N, HeadersType, h, step)
    <3> HIDE DEF step
    <3> QED BY <1>1, <2>2, Recursion
  <2>4. \A i \in 1..N : f[i] = MergeHeader(f[i - 1], sorted[i], temp[sorted[i]])
    <3>1. \A i \in 1..N : i - 1 \in 0..N
      BY <1>1
    <3> QED BY <2>3, <3>1 DEF Computes
  <2> HIDE DEF step
  <2>5. f = [i \in 0..N |-> f[i]] /\ f[0] = h
    BY <2>3 DEF Computes
  <2>6. \A i \in 0..N : i # 0 => i \in 1..N
    BY <1>1
  <2>7. f = Body(f)
    BY <2>4, <2>5, <2>6
  <2> QED BY <2>7
<1> DEFINE c == CHOOSE f : f = Body(f)
<1>3. MergeTempHeadersLoop(h, temp) = c[N]
  BY DEF MergeTempHeadersLoop
<1>4. c = Body(c)
  <2> HIDE DEF Body
  <2> QED BY <1>2
<1>5. LoopMerges(c, h, temp)
  <2> HIDE DEF c
  <2>1. c[0] = h
    BY <1>1, <1>4
  <2>2. \A i \in 1..N : i \in 0..N /\ i # 0
    BY <1>1
  <2>3. \A i \in 1..N : c[i] = MergeHeader(c[i - 1], sorted[i], temp[sorted[i]])
    <3> HIDE DEF N, sorted
    <3> QED BY <1>4, <2>2
  <2> QED BY <2>1, <2>3 DEF LoopMerges
<1> HIDE DEF c
<1> QED BY <1>3, <1>5

\* The loop gives each header the values, the received values and the id of the closed
\* form: the new ones are created in the order of their ids (parser.go, 369-384).
LEMMA LoopIsClosedForm ==
  ASSUME NEW h, Good(h), NEW temp, Good(temp), Aside(temp)
  PROVE  MergeTempHeaders(h, temp) = MergeTempHeadersLoop(h, temp)
<1>1. h \in HeadersType /\ temp \in HeadersType
  BY DEF Good
<1>2. PICK f : /\ LoopMerges(f, h, temp)
               /\ MergeTempHeadersLoop(h, temp) = f[Len(GetSortedHeaders(temp))]
  BY <1>1, MergeLoops
<1> DEFINE P == Present(temp)
           Q == Present(h)
           N == Cardinality(P)
           s == GetSortedHeaders(temp)
           new == {n \in P \ Q : temp[n].receivedValues # <<>> \/ Live(temp[n].values) # <<>>}
           newTo(i) == {m \in new : temp[m].id <= i}
           closed == MergeTempHeaders(h, temp)
           Right(i, g) ==
             /\ g \in HeadersType
             /\ \A m \in Names : g[m] = IF m \in P /\ temp[m].id <= i THEN closed[m] ELSE h[m]
           T == {i \in 0..N : Right(i, f[i])}
<1>3. /\ N \in Nat /\ Len(s) = N
      /\ \A i \in 1..N : s[i] \in P /\ temp[s[i]].id = i
      /\ \A n \in P : temp[n].id \in 1..N
      /\ \A m, n \in P : temp[m].id = temp[n].id => m = n
  BY SortedById
<1>4. /\ f[0] = h /\ MergeTempHeadersLoop(h, temp) = f[N]
      /\ \A i \in 1..N : f[i] = MergeHeader(f[i - 1], s[i], temp[s[i]])
  BY <1>2, <1>3 DEF LoopMerges
<1>5. /\ P \subseteq Names /\ Q \subseteq Names /\ new \subseteq P /\ new \cap Q = {}
      /\ \A n \in P : n \notin Q => (n \notin new <=> Nothing(temp[n]))
  BY DEF Present, Nothing
<1>6. /\ closed \in HeadersType
      /\ \A n \in Names :
           IF n \notin P \cap (Q \cup new) THEN closed[n] = h[n]
           ELSE closed[n] = [id             |-> IF n \notin new THEN h[n].id
                                                ELSE Cardinality(Q)
                                                     + Cardinality(newTo(temp[n].id)),
                             values         |-> MergedValues(h[n].values, temp[n]),
                             receivedValues |-> h[n].receivedValues \o temp[n].receivedValues]
  BY <1>1, MergeTempHeadersType DEF MergeTempHeaders
<1>7. \A n \in Names : (n \in Q <=> h[n].id # 0) /\ (n \in Q <=> h[n].values # <<>>)
  BY GoodHeader
<1> HIDE DEF P, Q, N, s, closed
<1>8. /\ IsFiniteSet(Q) /\ Cardinality(Q) \in Nat
      /\ \A i : IsFiniteSet(newTo(i)) /\ Cardinality(newTo(i)) \in Nat
  <2>1. \A i : newTo(i) \in SUBSET Names
    BY <1>5
  <2> HIDE DEF newTo
  <2> QED BY <1>5, <2>1, CardinalityPresent
<1>9. ASSUME NEW m \in P, m \notin new
      PROVE  closed[m].id # 0 <=> m \in Q
  <2>1. m \in Names
    BY <1>5
  <2> HIDE DEF newTo
  <2>2. CASE m \in Q
    <3>1. m \in P \cap (Q \cup new)
      BY <2>2
    <3>2. closed[m] = [id             |-> h[m].id,
                       values         |-> MergedValues(h[m].values, temp[m]),
                       receivedValues |-> h[m].receivedValues \o temp[m].receivedValues]
      <4> HIDE DEF new
      <4> QED BY <1>6, <1>9, <2>1, <3>1
    <3>3. closed[m].id = h[m].id
      BY <3>2
    <3> QED BY <1>7, <2>1, <2>2, <3>3
  <2>3. CASE m \notin Q
    <3>1. m \notin P \cap (Q \cup new)
      BY <1>9, <2>3
    <3>2. closed[m] = h[m]
      <4> HIDE DEF new
      <4> QED BY <1>6, <2>1, <3>1
    <3> QED BY <1>7, <2>1, <2>3, <3>2
  <2> QED BY <2>2, <2>3
<1>10. ASSUME NEW m \in new
       PROVE  closed[m].id # 0
  <2>1. temp[m].id \in Nat
    BY <1>3, <1>5
  <2>2. m \in newTo(temp[m].id)
    BY <2>1
  <2>3. Cardinality(newTo(temp[m].id)) # 0
    <3> HIDE DEF newTo
    <3> QED BY <1>8, <2>2, FS_EmptySet
  <2>4. closed[m].id = Cardinality(Q) + Cardinality(newTo(temp[m].id))
    <3>1. m \in Names /\ m \in P \cap (Q \cup new)
      BY <1>5
    <3> HIDE DEF newTo, new
    <3>2. closed[m] = [id             |-> Cardinality(Q) + Cardinality(newTo(temp[m].id)),
                       values         |-> MergedValues(h[m].values, temp[m]),
                       receivedValues |-> h[m].receivedValues \o temp[m].receivedValues]
      BY <1>6, <1>10, <3>1
    <3> QED BY <3>2
  <2> HIDE DEF newTo
  <2> QED BY <1>8, <2>3, <2>4
<1> HIDE DEF new
<1>11. 0 \in T
  <2>1. 0 \in 0..N /\ \A m \in P : ~(temp[m].id <= 0)
    BY <1>3
  <2> QED BY <1>1, <1>4, <2>1
<1>12. ASSUME NEW i \in 0..N, i \in T, i < N
       PROVE  i + 1 \in T
  <2> DEFINE j == i + 1
             n == s[j]
             g == f[i]
             k == f[j]
  <2>1. j \in 1..N /\ j \in 0..N /\ j - 1 = i
    BY <1>3, <1>12
  <2>2. n \in P /\ temp[n].id = j /\ n \in Names
    BY <1>3, <1>5, <2>1
  <2>3. k = MergeHeader(g, n, temp[n])
    BY <1>4, <2>1
  <2>4. Right(i, g)
    BY <1>12
  <2> HIDE DEF T, n, g, k
  <2>5. g[n] = h[n]
    <3>1. ~(temp[n].id <= i)
      BY <1>3, <1>12, <2>2
    <3> QED BY <2>2, <2>4, <3>1
  <2>5a. Rounded(k, g, n, temp[n])
    <3>1. g \in HeadersType /\ n \in Present(temp)
      BY <2>2, <2>4 DEF P
    <3> HIDE DEF Right
    <3> QED BY <2>3, <3>1, RoundMerged
  <2>6. /\ k \in HeadersType /\ Elsewhere(k, g, n)
        /\ g[n].id = 0 /\ g[n].values = <<>> /\ Nothing(temp[n]) => k[n] = g[n]
        /\ ~(g[n].id = 0 /\ Nothing(temp[n])) =>
             k[n] = [id             |-> IdOf(g, n),
                     values         |-> MergedValues(g[n].values, temp[n]),
                     receivedValues |-> g[n].receivedValues \o temp[n].receivedValues]
    BY <2>5a DEF Rounded
  <2>7. k[n] = closed[n]
    <3>1. CASE n \notin Q /\ Nothing(temp[n])
      <4>1. g[n].id = 0 /\ g[n].values = <<>> /\ n \notin new
        BY <1>5, <1>7, <2>2, <2>5, <3>1
      <4>2. closed[n] = h[n]
        BY <1>6, <2>2, <3>1, <4>1
      <4> QED BY <2>5, <2>6, <3>1, <4>1, <4>2
    <3>2. CASE n \in Q
      <4>1. h[n].id # 0 /\ n \notin new
        BY <1>5, <1>7, <2>2, <3>2
      <4>2. IdOf(g, n) = h[n].id
        BY <2>5, <4>1 DEF IdOf
      <4> QED BY <1>6, <2>2, <2>5, <2>6, <3>2, <4>1, <4>2
    <3>3. CASE n \notin Q /\ ~Nothing(temp[n])
      <4>1. h[n].id = 0 /\ n \in new
        BY <1>5, <1>7, <2>2, <3>3
      <4>2. Present(g) = Q \cup newTo(i)
        <5>1. ASSUME NEW m \in Names
              PROVE  g[m].id # 0 <=> m \in Q \cup newTo(i)
          <6>1. CASE m \in P /\ temp[m].id <= i
            BY <1>9, <1>10, <2>4, <6>1
          <6>2. CASE ~(m \in P /\ temp[m].id <= i)
            BY <1>5, <1>7, <2>4, <6>2
          <6> QED BY <6>1, <6>2
        <5>2. Q \cup newTo(i) \subseteq Names
          BY <1>5
        <5> HIDE DEF newTo, Right
        <5> QED BY <5>1, <5>2 DEF Present
      <4>3. newTo(j) = newTo(i) \cup {n} /\ n \notin newTo(i)
        <5>1. ASSUME NEW m \in new, m # n
              PROVE  temp[m].id <= j <=> temp[m].id <= i
          <6>1. temp[m].id \in 1..N /\ temp[m].id # j
            BY <1>3, <1>5, <2>2, <5>1
          <6> QED BY <1>3, <1>12, <6>1
        <5>2. temp[n].id <= j /\ ~(temp[n].id <= i)
          BY <1>3, <1>12, <2>2
        <5> HIDE DEF j
        <5> QED BY <4>1, <5>1, <5>2
      <4>4. Cardinality(newTo(j)) = Cardinality(newTo(i)) + 1
        <5> HIDE DEF newTo, j
        <5> QED BY <1>8, <4>3, FS_AddElement
      <4>5. Cardinality(Present(g)) = Cardinality(Q) + Cardinality(newTo(i))
        <5>1. Q \cap newTo(i) = {} /\ Cardinality({}) = 0
          BY <1>5, FS_EmptySet
        <5> HIDE DEF newTo, j
        <5>2. Cardinality(Q \cup newTo(i))
                = Cardinality(Q) + Cardinality(newTo(i)) - Cardinality(Q \cap newTo(i))
          BY <1>8, FS_Union
        <5>3. Cardinality(Q \cap newTo(i)) = 0
          BY <5>1
        <5> QED BY <1>8, <4>2, <5>2, <5>3
      <4>6. IdOf(g, n) = Cardinality(Q) + Cardinality(newTo(j))
        <5>1. IdOf(g, n) = Cardinality(Present(g)) + 1
          BY <2>5, <4>1 DEF IdOf
        <5> HIDE DEF newTo, j
        <5> QED BY <1>8, <4>4, <4>5, <5>1
      <4> HIDE DEF newTo, j
      <4>7. closed[n] = [id             |-> Cardinality(Q) + Cardinality(newTo(j)),
                         values         |-> MergedValues(h[n].values, temp[n]),
                         receivedValues |-> h[n].receivedValues \o temp[n].receivedValues]
        BY <1>6, <2>2, <4>1
      <4> QED BY <2>5, <2>6, <3>3, <4>6, <4>7
    <3> QED BY <3>1, <3>2, <3>3
  <2>8. ASSUME NEW m \in Names
        PROVE  k[m] = IF m \in P /\ temp[m].id <= j THEN closed[m] ELSE h[m]
    <3>1. CASE m = n
      <4>1. temp[n].id <= j
        BY <1>3, <2>1, <2>2
      <4> QED BY <2>2, <2>7, <3>1, <4>1
    <3>2. CASE m # n
      <4>1. k[m] = g[m]
        BY <2>6, <3>2 DEF Elsewhere
      <4>2. m \in P => (temp[m].id <= j <=> temp[m].id <= i)
        <5>1. m \in P => temp[m].id \in 1..N /\ temp[m].id # j
          BY <1>3, <2>2, <3>2
        <5> QED BY <1>3, <1>12, <5>1
      <4> HIDE DEF j
      <4> QED BY <2>4, <4>1, <4>2
    <3> QED BY <3>1, <3>2
  <2>9. Right(j, k)
    <3> HIDE DEF j
    <3> QED BY <2>6, <2>8
  <2> HIDE DEF Right
  <2> QED BY <2>1, <2>9 DEF T, k
<1>13. Right(N, f[N])
  <2> HIDE DEF Right
  <2>1. 0..N \subseteq T
    <3> HIDE DEF T
    <3> QED BY <1>3, <1>11, <1>12, UpTo
  <2>2. N \in 0..N
    BY <1>3
  <2> QED BY <2>1, <2>2
<1>14. \A m \in Names : f[N][m] = closed[m]
  <2>1. \A m \in P : temp[m].id <= N
    BY <1>3
  <2>2. \A m \in Names : m \notin P => closed[m] = h[m]
    BY <1>6
  <2> QED BY <1>13, <2>1, <2>2
<1>15. f[N] = closed
  <2>1. f[N] \in HeadersType
    BY <1>13
  <2> QED BY <1>6, <1>14, <2>1 DEF HeadersType
<1> QED BY <1>4, <1>15 DEF closed

-----------------------------------------------------------------------------
(* The steps of Parse *)

\* Good headers are merged by the loop, and what is kept aside is what it can merge.
MergeInv == Inv /\ Aside(tempHeaders)

NotReceived(values) == \A i \in DOMAIN values : values[i].state # "Received"

LEMMA NoHeadersAside == Aside(NoHeaders)
BY DEF Aside, NoHeaders, NoHeader, Present

\* Headers.Delete leaves no value as received (header.go, 173-177).
LEMMA DeletedAside ==
  ASSUME NEW h \in HeadersType, HdrNameHost \notin Present(h), NEW n \in Names,
         \A m \in Names : m # n => NotReceived(h[m].values)
  PROVE  Aside(Delete(h, n))
<1> DEFINE g == Delete(h, n)
<1>1. /\ \A m \in Names : m # n => g[m] = h[m]
      /\ g[n].id = h[n].id /\ g[n].values = MarkDeleted(h[n].values)
  BY DeleteEffect DEF Elsewhere
<1> HIDE DEF g
<1>2. NotReceived(MarkDeleted(h[n].values))
  BY DEF NotReceived, MarkDeleted
<1>3. \A m \in Names : NotReceived(g[m].values)
  BY <1>1, <1>2
<1>4. Present(g) = Present(h)
  BY <1>1 DEF Present
<1>5. HdrNameHost \notin Present(g)
  BY <1>4
<1> QED BY <1>3, <1>5 DEF Aside, NotReceived, g

\* addProcessedHeaders for a header that Varnish itself may have changed, none of which
\* is Host (parser.go, 160-166).
LEMMA AddedAside ==
  ASSUME NEW h \in HeadersType, Aside(h), NEW n \in Names, n # HdrNameHost,
         NEW value, NEW state, state # "Received"
  PROVE  Aside(Add(h, n, value, state))
<1> DEFINE g == Add(h, n, value, state)
           v == [value |-> value, state |-> state]
           kept == IF state = "Modified" THEN <<>> ELSE h[n].values
<1>1. /\ \A m \in Names : m # n => g[m] = h[m]
      /\ g[n].values = Append(kept, v)
  BY AddEffect DEF Elsewhere
<1> HIDE DEF g
<1>2. \A m \in Names : NotReceived(h[m].values)
  BY DEF Aside, NotReceived
<1>3. NotReceived(Append(kept, v))
  <2>1. kept \in Seq(HdrValue) /\ NotReceived(kept) /\ v.state # "Received"
    BY <1>2 DEF NotReceived, HeadersType, Header
  <2>2. /\ DOMAIN kept = 1..Len(kept) /\ DOMAIN Append(kept, v) = 1..(Len(kept) + 1)
        /\ Append(kept, v)[Len(kept) + 1] = v /\ Len(kept) \in Nat
        /\ \A i \in 1..Len(kept) : Append(kept, v)[i] = kept[i]
    <3> HIDE DEF kept, v
    <3> QED BY <2>1, LenProperties
  <2> HIDE DEF kept, v
  <2>3. \A i \in 1..(Len(kept) + 1) : i \in 1..Len(kept) \/ i = Len(kept) + 1
    BY <2>2
  <2> QED BY <2>1, <2>2, <2>3 DEF NotReceived
<1>4. \A m \in Names : NotReceived(g[m].values)
  BY <1>1, <1>2, <1>3
<1>5. HdrNameHost \notin Present(g)
  BY <1>1 DEF Aside, Present
<1> QED BY <1>4, <1>5 DEF Aside, NotReceived, g

\* Every line keeps aside only what the loop can merge (parser.go, 158-193).
LEMMA KeptAside ==
  ASSUME MergeInv, NEW l \in Lines, ReadLine(l)
  PROVE  Aside(tempHeaders')
<1> DEFINE c == CanonicalHeaderName[l.name]
           aside == clientHeaders /\ IsVarnishModifiedHeader(l.name, l.tag)
<1>1. tempHeaders \in HeadersType /\ Aside(tempHeaders)
  BY DEF MergeInv, Inv, TypeOK
<1>2. ASSUME l.name \in Spellings
      PROVE  c \in Names /\ CanonicalHeaderName[c] = c /\ (aside => c # HdrNameHost)
  BY <1>2, SpellingsAssumption, VarnishModifiedAssumption DEF Names, IsVarnishModifiedHeader
<1>3. CASE UNCHANGED tempHeaders \/ tempHeaders' = NoHeaders
  BY <1>1, <1>3, NoHeadersAside
<1>4. CASE HeaderRecord(l)
  <2>1. l.name \in Spellings /\ l.value \in Values
    BY <1>4, ProcessRecordType DEF HeaderRecord
  <2>2. CASE aside
    <3> DEFINE state == IF Get(tempHeaders, l.name) = Empty THEN "Added" ELSE "Modified"
    <3>1. tempHeaders' = Add(tempHeaders, c, l.value, state)
      BY <1>2, <1>4, <2>1, <2>2 DEF HeaderRecord, AddProcessedHeaders, Add
    <3>2. state # "Received"
      OBVIOUS
    <3> HIDE DEF state, c
    <3> QED BY <1>1, <1>2, <2>1, <2>2, <3>1, <3>2, AddedAside
  <2>3. CASE ~aside
    BY <1>3, <1>4, <2>3 DEF HeaderRecord
  <2> QED BY <2>2, <2>3
<1>5. CASE HeaderUnset(l)
  <2>1. l.name \in Spellings /\ l.value \in Values
    BY <1>5, ProcessRecordType DEF HeaderUnset
  <2> DEFINE added == Add(tempHeaders, c, l.value, "Received")
             kept == IF aside THEN added ELSE tempHeaders
  <2>2. tempHeaders' = Delete(kept, c)
    BY <1>2, <1>5, <2>1 DEF HeaderUnset, Add, Delete
  <2>3. \A m \in Names : NotReceived(tempHeaders[m].values)
    BY <1>1 DEF Aside, NotReceived
  <2>4. aside => /\ added \in HeadersType
                 /\ \A m \in Names : m # c => added[m] = tempHeaders[m]
    <3> SUFFICES ASSUME aside PROVE /\ added \in HeadersType
                                    /\ \A m \in Names : m # c => added[m] = tempHeaders[m]
      OBVIOUS
    <3>1. c \in Spellings /\ c \in Names /\ c # HdrNameHost
      BY <1>2, <2>1, SpellingsAssumption DEF Names
    <3> DEFINE r == "Received"
    <3>2. r \in HdrState
      BY DEF HdrState
    <3> HIDE DEF c, aside, r
    <3>3. Add(tempHeaders, c, l.value, r) \in HeadersType
      BY <1>1, <2>1, <3>1, <3>2, AddType
    <3>4. Elsewhere(Add(tempHeaders, c, l.value, r), tempHeaders, c)
      BY <1>1, <3>1, AddEffect
    <3> QED BY <3>3, <3>4 DEF Elsewhere, r
  <2> HIDE DEF c, aside, added
  <2>5. /\ kept \in HeadersType
        /\ \A m \in Names : m # c => NotReceived(kept[m].values)
    BY <1>1, <2>3, <2>4
  <2>6. HdrNameHost \notin Present(kept)
    BY <1>1, <1>2, <2>1, <2>4 DEF Present, Aside
  <2> HIDE DEF kept
  <2> QED BY <1>2, <2>1, <2>2, <2>5, <2>6, DeletedAside
<1>6. CASE ~HeaderRecord(l) /\ ~HeaderUnset(l)
  <2>1. UNCHANGED tempHeaders \/ tempHeaders' = NoHeaders
    BY <1>6 DEF ReadLine, SkipOuter, StartTransaction, BadTransaction, ReadBegin, MissingBegin,
                SkipShort, BadRecord, StoreRecord, DuplicateBegin, VCLCall, Status, Link, End,
                locals
  <2> QED BY <1>3, <2>1
<1> QED BY <1>4, <1>5, <1>6

\* Whatever is logged, what Parse keeps aside is merged into either map exactly as the
\* loop over the sorted headers merges it: the closed form all the other theorems about
\* the parser use is what the code computes (parser.go, 353-387).
THEOREM MergeIsTheLoopCorrect == Spec => []MergeIsTheLoop
<1>1. Init => MergeInv
  <2> SUFFICES ASSUME Init PROVE MergeInv
    OBVIOUS
  <2>1. TypeOK
    BY InitType
  <2>2. /\ tx.reqHeaders = NoHeaders /\ tx.respHeaders = NoHeaders
        /\ tempHeaders = NoHeaders
    BY DEF Init, NewTransaction
  <2> QED BY <2>1, <2>2, InvGood, NoHeadersGood, NoHeadersAside DEF Inv, MergeInv
<1>2. MergeInv /\ [Next]_vars => MergeInv'
  <2> SUFFICES ASSUME MergeInv, [Next]_vars PROVE MergeInv'
    OBVIOUS
  <2>1. TypeOK'
    BY NextType DEF MergeInv, Inv
  <2>2. /\ Good(tx.reqHeaders) /\ Good(tx.respHeaders) /\ Good(tempHeaders)
        /\ Aside(tempHeaders)
    BY InvGood DEF MergeInv, Inv
  <2>3. /\ Good(tx'.reqHeaders) /\ Good(tx'.respHeaders) /\ Good(tempHeaders')
        /\ Aside(tempHeaders')
    <3>1. CASE \E l \in Lines : ReadLine(l)
      BY <3>1, ReadLineGood, KeptAside DEF MergeInv
    <3>2. CASE EndOfInput \/ ScanError
      BY <2>2, <3>2 DEF EndOfInput, ScanError, locals
    <3>3. CASE UNCHANGED vars
      BY <2>2, <3>3 DEF vars
    <3> QED BY <3>1, <3>2, <3>3 DEF Next
  <2>4. AllHeadersWellFormed'
    BY <2>3 DEF AllHeadersWellFormed, Good
  <2>5. Aside(tempHeaders)'
    BY <2>3 DEF Aside, Present
  <2> QED BY <2>1, <2>4, <2>5 DEF MergeInv, Inv
<1>3. MergeInv => MergeIsTheLoop
  <2> SUFFICES ASSUME MergeInv PROVE MergeIsTheLoop
    OBVIOUS
  <2>1. /\ Good(tx.reqHeaders) /\ Good(tx.respHeaders) /\ Good(tempHeaders)
        /\ Aside(tempHeaders)
    BY InvGood DEF MergeInv, Inv
  <2> QED BY <2>1, LoopIsClosedForm DEF MergeIsTheLoop
<1> QED BY <1>1, <1>2, <1>3, PTL DEF Spec

-----------------------------------------------------------------------------
(* The values of a header *)

LEMMA TextsOf ==
  ASSUME NEW values \in Seq(HdrValue)
  PROVE  /\ Texts(values) \in Seq(Values) /\ Len(Texts(values)) = Len(values)
         /\ \A i \in 1..Len(values) : Texts(values)[i] = values[i].value
<1>1. DOMAIN values = 1..Len(values) /\ Len(values) \in Nat
  BY LenProperties
<1>2. \A i \in 1..Len(values) : values[i] \in HdrValue
  BY ElementOfSeq
<1>3. \A i \in 1..Len(values) : values[i].value \in Values
  BY <1>2 DEF HdrValue
<1>4. Texts(values) = [i \in 1..Len(values) |-> values[i].value]
  BY <1>1 DEF Texts
<1>5. Texts(values) \in [1..Len(values) -> Values]
  BY <1>3, <1>4
<1>6. Texts(values) \in Seq(Values)
  BY <1>1, <1>5, SeqDef
<1>7. Len(Texts(values)) = Len(values)
  BY <1>1, <1>5, <1>6, LenProperties
<1> QED BY <1>4, <1>6, <1>7

LEMMA TextsOfNone == Texts(<<>>) = <<>>
<1>1. <<>> \in Seq(HdrValue) /\ Len(<<>>) = 0
  OBVIOUS
<1>2. Texts(<<>>) \in Seq(Values) /\ Len(Texts(<<>>)) = 0
  BY <1>1, TextsOf
<1> QED BY <1>2, EmptySeq

LEMMA NoTextsOf ==
  ASSUME NEW values \in Seq(HdrValue), Texts(values) = <<>>
  PROVE  values = <<>>
<1>1. Len(values) = 0
  BY TextsOf
<1> QED BY <1>1, EmptySeq

LEMMA TextsOfLonger ==
  ASSUME NEW values \in Seq(HdrValue), NEW v \in HdrValue
  PROVE  Texts(Append(values, v)) = Append(Texts(values), v.value)
<1> DEFINE longer == Append(values, v)
           texts == Append(Texts(values), v.value)
<1>1. /\ longer \in Seq(HdrValue) /\ Len(longer) = Len(values) + 1 /\ Len(values) \in Nat
      /\ \A i \in 1..Len(values) : longer[i] = values[i]
      /\ longer[Len(values) + 1] = v
  BY LenProperties, AppendProperties
<1>2. /\ Texts(values) \in Seq(Values) /\ Len(Texts(values)) = Len(values) /\ v.value \in Values
      /\ \A i \in 1..Len(values) : Texts(values)[i] = values[i].value
  BY TextsOf DEF HdrValue
<1>3. /\ texts \in Seq(Values) /\ Len(texts) = Len(values) + 1
      /\ \A i \in 1..Len(values) : texts[i] = values[i].value
      /\ texts[Len(values) + 1] = v.value
  BY <1>2, AppendProperties
<1>4. /\ Texts(longer) \in Seq(Values) /\ Len(Texts(longer)) = Len(values) + 1
      /\ \A i \in 1..Len(longer) : Texts(longer)[i] = longer[i].value
  BY <1>1, TextsOf
<1> HIDE DEF longer, texts
<1>5. \A i \in 1..(Len(values) + 1) : Texts(longer)[i] = texts[i]
  <2>1. \A i \in 1..(Len(values) + 1) : i \in 1..Len(values) \/ i = Len(values) + 1
    BY <1>1
  <2> QED BY <1>1, <1>3, <1>4, <2>1
<1>6. Texts(longer) = texts
  BY <1>3, <1>4, <1>5, SeqEqual
<1> QED BY <1>6 DEF longer, texts

\* A value that is not deleted comes behind the others (header.go, 139-150).
LEMMA LiveAppend ==
  ASSUME NEW values \in Seq(HdrValue), WellFormedValues(values),
         NEW v \in HdrValue, v.state # "Deleted", v.state = "Modified" => values = <<>>
  PROVE  /\ NDeleted(Append(values, v)) = NDeleted(values)
         /\ Live(Append(values, v)) = Append(Live(values), v)
<1> DEFINE longer == Append(values, v)
           d == NDeleted(values)
           e == NDeleted(longer)
           N == Len(values)
<1>1. /\ longer \in Seq(HdrValue) /\ Len(longer) = N + 1 /\ N \in Nat
      /\ \A i \in 1..N : longer[i] = values[i]
      /\ longer[N + 1] = v
  BY LenProperties, AppendProperties
<1>2. WellFormedValues(longer)
  BY AppendWellFormed
<1>3. /\ d \in 0..N /\ Live(values) \in Seq(HdrValue) /\ Len(Live(values)) = N - d
      /\ \A i \in 1..N : values[i].state = "Deleted" <=> i <= d
      /\ \A j \in 1..(N - d) : Live(values)[j] = values[d + j]
  BY LiveIsRest
<1>4. /\ e \in 0..(N + 1) /\ Live(longer) \in Seq(HdrValue) /\ Len(Live(longer)) = (N + 1) - e
      /\ \A i \in 1..(N + 1) : longer[i].state = "Deleted" <=> i <= e
      /\ \A j \in 1..((N + 1) - e) : Live(longer)[j] = longer[e + j]
  <2> HIDE DEF longer, N
  <2> QED BY <1>1, <1>2, LiveIsRest
<1>5. /\ Append(Live(values), v) \in Seq(HdrValue)
      /\ Len(Append(Live(values), v)) = (N - d) + 1
      /\ \A j \in 1..(N - d) : Append(Live(values), v)[j] = Live(values)[j]
      /\ Append(Live(values), v)[(N - d) + 1] = v
  <2> HIDE DEF d, N
  <2> QED BY <1>3, AppendProperties
<1> HIDE DEF longer, d, e, N
<1>6. e = d
  <2>1. N + 1 \in 1..(N + 1) /\ \A i \in 1..N : i \in 1..(N + 1)
    BY <1>1
  <2>2. ~(N + 1 <= e)
    BY <1>1, <1>4, <2>1
  <2>3. ASSUME NEW i \in 1..N
        PROVE  i <= d <=> i <= e
    <3>1. longer[i] = values[i] /\ (longer[i].state = "Deleted" <=> i <= e)
      BY <1>1, <1>4, <2>1
    <3> QED BY <1>3, <3>1
  <2>4. d \in 1..N => d <= e
    BY <1>1, <1>3, <2>3
  <2>5. e \in 1..N => e <= d
    BY <1>1, <1>4, <2>3
  <2> QED BY <1>1, <1>3, <1>4, <2>2, <2>4, <2>5
<1>7. Live(longer) = Append(Live(values), v)
  <2>1. (N + 1) - e = (N - d) + 1
    BY <1>1, <1>3, <1>6
  <2>2. ASSUME NEW j \in 1..((N - d) + 1)
        PROVE  Live(longer)[j] = Append(Live(values), v)[j]
    <3>1. CASE j \in 1..(N - d)
      <4>1. e + j = d + j /\ d + j \in 1..N
        BY <1>1, <1>3, <1>6, <3>1
      <4>2. Live(longer)[j] = longer[d + j]
        BY <1>4, <2>1, <4>1
      <4>3. longer[d + j] = values[d + j]
        BY <1>1, <4>1
      <4> QED BY <1>3, <1>5, <3>1, <4>2, <4>3
    <3>2. CASE j = (N - d) + 1
      <4>1. e + j = N + 1
        BY <1>1, <1>3, <1>6, <3>2
      <4> QED BY <1>1, <1>4, <1>5, <2>1, <3>2, <4>1
    <3> QED BY <1>1, <1>3, <3>1, <3>2
  <2> QED BY <1>4, <1>5, <2>1, <2>2, SeqEqual
<1> QED BY <1>6, <1>7 DEF longer, d, e

\* What is deleted comes first, what is live behind it.
LEMMA LiveBehind ==
  ASSUME NEW s \in Seq(HdrValue), \A i \in 1..Len(s) : s[i].state = "Deleted",
         NEW t \in Seq(HdrValue), \A i \in 1..Len(t) : t[i].state # "Deleted",
         WellFormedValues(s \o t)
  PROVE  NDeleted(s \o t) = Len(s) /\ Live(s \o t) = t
<1> DEFINE both == s \o t
           d == NDeleted(both)
           M == Len(s)
           N == Len(t)
<1>1. /\ both \in Seq(HdrValue) /\ Len(both) = M + N /\ M \in Nat /\ N \in Nat
      /\ \A i \in 1..(M + N) : both[i] = IF i <= M THEN s[i] ELSE t[i - M]
  BY LenProperties, ConcatProperties
<1>2. /\ d \in 0..(M + N) /\ Live(both) \in Seq(HdrValue) /\ Len(Live(both)) = (M + N) - d
      /\ \A i \in 1..(M + N) : both[i].state = "Deleted" <=> i <= d
      /\ \A j \in 1..((M + N) - d) : Live(both)[j] = both[d + j]
  <2> HIDE DEF both, M, N
  <2> QED BY <1>1, LiveIsRest DEF both
<1>3. \A i \in 1..M : s[i].state = "Deleted"
  OBVIOUS
<1>4. \A i \in 1..N : t[i].state # "Deleted"
  OBVIOUS
<1> HIDE DEF both, d, M, N
<1>5. d = M
  <2>1. \A i \in 1..M : i \in 1..(M + N) /\ i <= M
    BY <1>1
  <2>2. \A i \in 1..M : i <= d
    BY <1>1, <1>2, <1>3, <2>1
  <2>3. \A i \in (M + 1)..(M + N) : i \in 1..(M + N) /\ ~(i <= M) /\ i - M \in 1..N
    BY <1>1
  <2>4. ASSUME NEW i \in (M + 1)..(M + N)
        PROVE  ~(i <= d)
    <3>1. both[i] = t[i - M] /\ t[i - M].state # "Deleted"
      BY <1>1, <1>4, <2>3
    <3> QED BY <1>2, <2>3, <3>1
  <2>5. M \in 1..M => M <= d
    BY <2>2
  <2>6. d \in (M + 1)..(M + N) => ~(d <= d)
    BY <2>4
  <2> QED BY <1>1, <1>2, <2>5, <2>6
<1>6. Live(both) = t
  <2>1. (M + N) - d = N
    BY <1>1, <1>5
  <2>2. ASSUME NEW j \in 1..N
        PROVE  Live(both)[j] = t[j]
    <3>1. d + j \in 1..(M + N) /\ ~(d + j <= M) /\ (d + j) - M = j
      BY <1>1, <1>5
    <3> QED BY <1>1, <1>2, <2>1, <3>1
  <2>3. t \in Seq(HdrValue) /\ Len(t) = N
    BY DEF N
  <2>4. Live(both) \in Seq(HdrValue) /\ Len(Live(both)) = N
    BY <1>2, <2>1
  <2> QED BY <2>2, <2>3, <2>4, SeqEqual
<1> QED BY <1>5, <1>6 DEF both, d, M

LEMMA NothingLive ==
  ASSUME NEW values \in Seq(HdrValue)
  PROVE  /\ MarkDeleted(values) \in Seq(HdrValue) /\ WellFormedValues(MarkDeleted(values))
         /\ NDeleted(MarkDeleted(values)) = Len(values)
         /\ Len(MarkDeleted(values)) = Len(values) /\ Live(MarkDeleted(values)) = <<>>
         /\ \A i \in 1..Len(values) : /\ MarkDeleted(values)[i].value = values[i].value
                                       /\ MarkDeleted(values)[i].state = "Deleted"
<1> DEFINE marked == MarkDeleted(values)
<1>1. marked \in Seq(HdrValue) /\ WellFormedValues(marked) /\ Len(marked) = Len(values)
  BY MarkDeletedType, MarkDeletedWellFormed
<1>2. \A i \in 1..Len(values) : marked[i].value = values[i].value /\ marked[i].state = "Deleted"
  BY LenProperties DEF MarkDeleted
<1>3. /\ <<>> \in Seq(HdrValue) /\ Len(<<>>) = 0 /\ marked \o <<>> = marked
      /\ \A i \in 1..0 : <<>>[i].state # "Deleted"
  BY <1>1, ConcatEmptySeq
<1> HIDE DEF marked
<1>4. \A i \in 1..Len(marked) : marked[i].state = "Deleted"
  BY <1>1, <1>2
<1>5. NDeleted(marked) = Len(marked) /\ Live(marked) = <<>>
  BY <1>1, <1>4, <1>3, LiveBehind
<1> QED BY <1>1, <1>2, <1>5 DEF marked

LEMMA AllLive ==
  ASSUME NEW values \in Seq(HdrValue), WellFormedValues(values),
         \A i \in 1..Len(values) : values[i].state # "Deleted"
  PROVE  NDeleted(values) = 0 /\ Live(values) = values
<1>1. /\ <<>> \in Seq(HdrValue) /\ Len(<<>>) = 0 /\ <<>> \o values = values
      /\ \A i \in 1..0 : <<>>[i].state = "Deleted"
  BY ConcatEmptySeq
<1> QED BY <1>1, LiveBehind

LEMMA LiveOfNone == NDeleted(<<>>) = 0 /\ Live(<<>>) = <<>> /\ WellFormedValues(<<>>)
<1>1. <<>> \in Seq(HdrValue) /\ Len(<<>>) = 0 /\ WellFormedValues(<<>>)
  BY DEF WellFormedValues
<1>2. \A i \in 1..0 : <<>>[i].state # "Deleted"
  OBVIOUS
<1> QED BY <1>1, <1>2, AllLive

\* The loop that skips the deleted values leaves the live ones (httpmodel.go, 60-67).
LEMMA NotDeletedAreLive ==
  ASSUME NEW values \in Seq(HdrValue), WellFormedValues(values)
  PROVE  NotDeleted(values) = Texts(Live(values))
<1> DEFINE N == Len(values)
           d == NDeleted(values)
           Body(f) == [i \in 0..N |->
                         IF i = 0 THEN <<>>
                         ELSE IF values[i].state = "Deleted" THEN f[i - 1]
                         ELSE Append(f[i - 1], values[i].value)]
<1>1. /\ d \in 0..N /\ N \in Nat /\ Live(values) \in Seq(HdrValue) /\ Len(Live(values)) = N - d
      /\ \A i \in 1..N : values[i].state = "Deleted" <=> i <= d
      /\ \A j \in 1..(N - d) : Live(values)[j] = values[d + j]
  BY LiveIsRest
<1>2. \A i \in 1..N : values[i].value \in Values
  <2>1. \A i \in 1..N : values[i] \in HdrValue
    BY ElementOfSeq
  <2> QED BY <2>1 DEF HdrValue
<1>3. \E f : f \in [0..N -> Seq(Values)] /\ f = Body(f)
  <2> DEFINE next(i, g) == IF values[i].state = "Deleted" THEN g ELSE Append(g, values[i].value)
             step == [i \in 1..N |-> [g \in Seq(Values) |-> next(i, g)]]
  <2>1. \A i \in 1..N : \A g \in Seq(Values) : next(i, g) \in Seq(Values)
    BY <1>2, AppendProperties
  <2>2. step \in [1..N -> [Seq(Values) -> Seq(Values)]]
    BY <2>1
  <2>3. <<>> \in Seq(Values)
    OBVIOUS
  <2>4. PICK f : Computes(f, N, Seq(Values), <<>>, step)
    <3> HIDE DEF step, N
    <3> QED BY <1>1, <2>2, <2>3, Recursion
  <2> HIDE DEF N
  <2>5. \A i \in 1..N : f[i] = next(i, f[i - 1])
    <3>1. \A i \in 1..N : i - 1 \in 0..N
      BY <1>1
    <3> QED BY <2>4, <3>1 DEF Computes
  <2> HIDE DEF step
  <2>6. f = [i \in 0..N |-> f[i]] /\ f[0] = <<>> /\ f \in [0..N -> Seq(Values)]
    BY <2>4 DEF Computes
  <2>7. \A i \in 0..N : i # 0 => i \in 1..N
    BY <1>1
  <2>8. f = Body(f)
    BY <2>5, <2>6, <2>7
  <2> QED BY <2>6, <2>8
<1> DEFINE c == CHOOSE f : f = Body(f)
<1>4. NotDeleted(values) = c[N]
  BY DEF NotDeleted
<1>5. c = Body(c)
  <2> HIDE DEF Body
  <2> QED BY <1>3
<1> HIDE DEF c
<1>6. /\ c[0] = <<>>
      /\ \A i \in 1..N : c[i] = IF values[i].state = "Deleted" THEN c[i - 1]
                                ELSE Append(c[i - 1], values[i].value)
  <2>1. 0 \in 0..N /\ \A i \in 1..N : i \in 0..N /\ i # 0
    BY <1>1
  <2> HIDE DEF N
  <2> QED BY <1>5, <2>1
<1> HIDE DEF Body
\* After i values: what the first i hold of the live ones.
<1> DEFINE Shown(i) == IF i <= d THEN 0 ELSE i - d
           Right(i) == /\ c[i] \in Seq(Values) /\ Len(c[i]) = Shown(i)
                       /\ \A j \in 1..Shown(i) : c[i][j] = values[d + j].value
           T == {i \in 0..N : Right(i)}
<1> HIDE DEF N, d
<1>7. 0 \in T
  <2>1. Shown(0) = 0 /\ 0 \in 0..N
    BY <1>1
  <2>2. <<>> \in Seq(Values) /\ Len(<<>>) = 0
    OBVIOUS
  <2>3. \A j \in 1..0 : FALSE
    OBVIOUS
  <2> HIDE DEF Shown
  <2>4. Right(0)
    BY <1>6, <2>1, <2>2, <2>3
  <2> QED BY <2>1, <2>4
<1>8. ASSUME NEW k \in 0..N, k \in T, k < N
      PROVE  k + 1 \in T
  <2>1. k + 1 \in 1..N /\ (k + 1) - 1 = k /\ k + 1 \in 0..N
    BY <1>1, <1>8
  <2>2. Right(k)
    BY <1>8
  <2>3. CASE k + 1 <= d
    <3>1. c[k + 1] = c[k]
      BY <1>1, <1>6, <2>1, <2>3
    <3>2. Shown(k + 1) = Shown(k)
      BY <1>1, <2>1, <2>3
    <3>3. Right(k + 1)
      BY <2>2, <3>1, <3>2
    <3> QED BY <2>1, <3>3
  <2>4. CASE ~(k + 1 <= d)
    <3>1. c[k + 1] = Append(c[k], values[k + 1].value)
      BY <1>1, <1>6, <2>1, <2>4
    <3>2. Shown(k + 1) = Shown(k) + 1 /\ Shown(k) \in Nat /\ d + (Shown(k) + 1) = k + 1
      BY <1>1, <2>1, <2>4
    <3>3. values[k + 1].value \in Values
      BY <1>2, <2>1
    <3> HIDE DEF Shown
    <3>4. /\ c[k + 1] \in Seq(Values) /\ Len(c[k + 1]) = Shown(k) + 1
          /\ \A j \in 1..Shown(k) : c[k + 1][j] = c[k][j]
          /\ c[k + 1][Shown(k) + 1] = values[k + 1].value
      BY <2>2, <3>1, <3>3, AppendProperties
    <3>5. \A j \in 1..(Shown(k) + 1) : j \in 1..Shown(k) \/ j = Shown(k) + 1
      BY <3>2
    <3>6. Right(k + 1)
      BY <2>2, <3>2, <3>4, <3>5
    <3> QED BY <2>1, <3>6
  <2> QED BY <2>3, <2>4
<1>9. Right(N)
  <2> HIDE DEF Right
  <2>1. 0..N \subseteq T
    <3>1. \A i \in 0..N : i \in T /\ i < N => i + 1 \in T
      BY <1>8
    <3> HIDE DEF T
    <3> QED BY <1>1, <1>7, <3>1, UpTo
  <2>2. N \in 0..N
    BY <1>1
  <2> QED BY <2>1, <2>2
<1>10. Shown(N) = N - d
  BY <1>1
<1>11. /\ Texts(Live(values)) \in Seq(Values) /\ Len(Texts(Live(values))) = N - d
       /\ \A j \in 1..(N - d) : Texts(Live(values))[j] = values[d + j].value
  <2>1. /\ Texts(Live(values)) \in Seq(Values)
        /\ Len(Texts(Live(values))) = Len(Live(values))
        /\ \A j \in 1..Len(Live(values)) : Texts(Live(values))[j] = Live(values)[j].value
    BY <1>1, TextsOf
  <2> QED BY <1>1, <2>1
<1> HIDE DEF Shown
<1>12. c[N] = Texts(Live(values))
  <2> DEFINE texts == Texts(Live(values))
             some == c[N]
  <2>1. /\ some \in Seq(Values) /\ Len(some) = N - d
        /\ \A j \in 1..(N - d) : some[j] = values[d + j].value
    BY <1>9, <1>10
  <2>2. /\ texts \in Seq(Values) /\ Len(texts) = N - d
        /\ \A j \in 1..(N - d) : texts[j] = values[d + j].value
    BY <1>11
  <2> HIDE DEF texts, some
  <2>3. \A j \in 1..Len(some) : some[j] = texts[j]
    BY <2>1, <2>2
  <2>4. some = texts
    BY <2>1, <2>2, <2>3, SeqEqual
  <2> QED BY <2>4 DEF texts, some
<1> QED BY <1>4, <1>12

-----------------------------------------------------------------------------
(* What the parser does with the lines of the worker *)

Used == ReceivedValues \cup SetValues

\* The map of a side.
SideMap(t, side) == IF side = "req" THEN t.reqHeaders ELSE t.respHeaders

HeaderLine(side, n, v) == [tag |-> HeaderTag(side), name |-> n, value |-> v]
UnsetLine(side, n, v)  == [tag |-> UnsetTag(side), name |-> n, value |-> v]

\* The tags of the worker's lines, by side; only those of a client request are for
\* headers Varnish may change itself (parser.go, 141-171, 407-431).
LEMMA WorkerTags ==
  ASSUME kind \in {"client", "backend"}, NEW side \in Sides, NEW n \in Names
  PROVE  /\ HeaderTag(side) \in HeaderTags /\ UnsetTag(side) \in UnsetTags
         /\ IsRespTag(HeaderTag(side)) <=> side = "resp"
         /\ IsRespTag(UnsetTag(side)) <=> side = "resp"
         /\ IsVarnishModifiedHeader(n, HeaderTag(side)) <=> CoreName(side, n)
         /\ IsVarnishModifiedHeader(n, UnsetTag(side)) <=> CoreName(side, n)
<1>1. CanonicalHeaderName[n] = n
  BY SpellingsAssumption
<1>2. CASE kind = "client"
  BY <1>1, <1>2 DEF Sides, HeaderTag, UnsetTag, HeaderTags, UnsetTags, IsRespTag,
                    IsVarnishModifiedHeader, CoreName
<1>3. CASE kind = "backend"
  BY <1>1, <1>3 DEF Sides, HeaderTag, UnsetTag, HeaderTags, UnsetTags, IsRespTag,
                    IsVarnishModifiedHeader, CoreName
<1> QED BY <1>2, <1>3

LEMMA WorkerLinesAreLines ==
  /\ [tag |-> "start", vxid |-> 1] \in Lines
  /\ [tag |-> "Begin", parent |-> 0] \in Lines
  /\ [tag |-> "VCL_call"] \in Lines /\ [tag |-> "Status"] \in Lines /\ [tag |-> "End"] \in Lines
  /\ kind \in {"client", "backend"} => \A side \in Sides, n \in Names, v \in Used :
       /\ HeaderLine(side, n, v) \in Lines
       /\ UnsetLine(side, n, v) \in Lines
<1>1. [tag |-> "start", vxid |-> 1] \in Lines
  BY WorkerAssumption DEF WorkerLines
<1>2. [tag |-> "Begin", parent |-> 0] \in Lines
  BY WorkerAssumption DEF WorkerLines
<1>3. /\ [tag |-> "VCL_call"] \in [tag : {"VCL_call", "Status", "End"}]
      /\ [tag |-> "Status"] \in [tag : {"VCL_call", "Status", "End"}]
      /\ [tag |-> "End"] \in [tag : {"VCL_call", "Status", "End"}]
  OBVIOUS
<1>4. [tag |-> "VCL_call"] \in Lines /\ [tag |-> "Status"] \in Lines /\ [tag |-> "End"] \in Lines
  BY <1>3, WorkerAssumption DEF WorkerLines
<1>5. ASSUME kind \in {"client", "backend"}, NEW side \in Sides, NEW n \in Names, NEW v \in Used
      PROVE  HeaderLine(side, n, v) \in Lines /\ UnsetLine(side, n, v) \in Lines
  <2> DEFINE tags == {"ReqHeader", "RespHeader", "BereqHeader", "BerespHeader",
                      "ReqUnset", "RespUnset", "BereqUnset", "BerespUnset"}
  <2>1. HeaderTag(side) \in tags /\ UnsetTag(side) \in tags
    BY <1>5 DEF Sides, HeaderTag, UnsetTag
  <2>2. [tag : tags, name : Names, value : Used] \subseteq Lines
    BY WorkerAssumption DEF WorkerLines, Used
  <2> HIDE DEF tags
  <2> QED BY <2>1, <2>2 DEF HeaderLine, UnsetLine
<1> QED BY <1>1, <1>2, <1>4, <1>5

LEMMA UsedAreValues == kind \in {"client", "backend"} => Used \subseteq Values
<1> SUFFICES ASSUME kind \in {"client", "backend"}, NEW v \in Used
             PROVE  v \in Values
  OBVIOUS
<1>1. "req" \in Sides /\ HdrNameHost \in Names
  BY SpellingsAssumption DEF Sides
<1>2. HeaderLine("req", HdrNameHost, v) \in Lines /\ HeaderTag("req") \in HeaderTags
  BY <1>1, WorkerLinesAreLines, WorkerTags
<1>3. HeaderLine("req", HdrNameHost, v).tag = HeaderTag("req")
  BY DEF HeaderLine
<1>4. HeaderLine("req", HdrNameHost, v).value \in Values
  BY <1>2, <1>3, ProcessRecordType
<1> QED BY <1>4 DEF HeaderLine

\* The lines around the headers (parser.go, 44-84, 101-104, 195-213).
LEMMA StartRead ==
  ASSUME pc = "outer", ReadLine([tag |-> "start", vxid |-> 1])
  PROVE  /\ pc' = "begin" /\ tx' = NewTransaction(1)
         /\ UNCHANGED <<clientHeaders, lastHeader, tempHeaders>>
BY DEF ReadLine, Scan, SkipOuter, StartTransaction, BadTransaction, ReadBegin, MissingBegin,
       SkipShort, BadRecord, StoreRecord, DuplicateBegin, VCLCall, Status, Link, HeaderRecord,
       HeaderUnset, End, locals, HeaderTags, UnsetTags

LEMMA BeginRead ==
  ASSUME TypeOK, pc = "begin", ReadLine([tag |-> "Begin", parent |-> 0])
  PROVE  /\ pc' = "inner" /\ clientHeaders' = TRUE /\ lastHeader' = "none"
         /\ tempHeaders' = NoHeaders
         /\ \A s \in Sides : SideMap(tx', s) = SideMap(tx, s)
<1> DEFINE l == [tag |-> "Begin", parent |-> 0]
<1>1. l \in Lines /\ l.tag = "Begin"
  BY WorkerLinesAreLines
<1> HIDE DEF l
<1>2. ReadBegin(l)
  BY <1>1 DEF ReadLine, Scan, SkipOuter, StartTransaction, BadTransaction, ReadBegin, MissingBegin,
       SkipShort, BadRecord, StoreRecord, DuplicateBegin, VCLCall, Status, Link, HeaderRecord,
       HeaderUnset, End, l
<1>3. WithRecord(tx, l).reqHeaders = tx.reqHeaders /\ WithRecord(tx, l).respHeaders = tx.respHeaders
  BY RecordKeepsHeaders DEF TypeOK
<1>4. WithRecord(tx, l) \in TxType
  BY <1>1, WithRecordType DEF TypeOK
<1>5. tx' = [WithRecord(tx, l) EXCEPT !.parent = l.parent]
  BY <1>2 DEF ReadBegin
<1>6. tx'.reqHeaders = tx.reqHeaders /\ tx'.respHeaders = tx.respHeaders
  BY <1>3, <1>4, <1>5 DEF TxType
<1> QED BY <1>2, <1>6 DEF ReadBegin, SideMap

LEMMA InnerRead ==
  ASSUME pc = "inner", NEW l, ReadLine(l)
  PROVE  /\ l.tag = "VCL_call" => VCLCall(l)
         /\ l.tag = "Status" => Status(l)
         /\ l.tag = "End" => End(l)
         /\ l.tag \in HeaderTags => HeaderRecord(l)
         /\ l.tag \in UnsetTags => HeaderUnset(l)
BY DEF ReadLine, Scan, SkipOuter, StartTransaction, BadTransaction, ReadBegin, MissingBegin,
       SkipShort, BadRecord, StoreRecord, DuplicateBegin, VCLCall, Status, Link, HeaderRecord,
       HeaderUnset, End, HeaderTags, UnsetTags

\* A record of any other tag leaves the headers alone (parser.go, 101-124).
LEMMA StatusRead ==
  ASSUME TypeOK, pc = "inner", ReadLine([tag |-> "Status"])
  PROVE  /\ pc' = "inner" /\ clientHeaders' = TRUE /\ UNCHANGED <<lastHeader, tempHeaders>>
         /\ \A s \in Sides : SideMap(tx', s) = SideMap(tx, s)
<1> DEFINE l == [tag |-> "Status"]
<1>1. l.tag = "Status"
  OBVIOUS
<1> HIDE DEF l
<1>2. Status(l)
  BY <1>1, InnerRead DEF l
<1>3. tx'.reqHeaders = tx.reqHeaders /\ tx'.respHeaders = tx.respHeaders
  BY <1>2, RecordKeepsHeaders DEF TypeOK, Status
<1> QED BY <1>2, <1>3 DEF Status, Scan, SideMap

LEMMA EndRead ==
  ASSUME TypeOK, pc = "inner", ReadLine([tag |-> "End"])
  PROVE  /\ pc' = "outer" /\ UNCHANGED <<clientHeaders, lastHeader, tempHeaders>>
         /\ \A s \in Sides : SideMap(tx', s) = SideMap(tx, s)
<1> DEFINE l == [tag |-> "End"]
<1>1. l.tag = "End"
  OBVIOUS
<1> HIDE DEF l
<1>2. End(l)
  BY <1>1, InnerRead DEF l
<1>3. tx'.reqHeaders = tx.reqHeaders /\ tx'.respHeaders = tx.respHeaders
  BY <1>2, RecordKeepsHeaders DEF TypeOK, End
<1> QED BY <1>2, <1>3 DEF End, SideMap, locals

\* The first VCL call merges what is kept aside into the map of the last header
\* record, the others do nothing (parser.go, 103-117).
LEMMA CallRead ==
  ASSUME TypeOK, pc = "inner", ReadLine([tag |-> "VCL_call"])
  PROVE  /\ pc' = "inner" /\ clientHeaders' = FALSE /\ UNCHANGED lastHeader
         /\ ~clientHeaders => tempHeaders' = tempHeaders
         /\ clientHeaders => tempHeaders' = NoHeaders
         /\ \A s \in Sides :
              SideMap(tx', s) = IF clientHeaders /\ lastHeader = s
                                THEN MergeTempHeaders(SideMap(tx, s), tempHeaders)
                                ELSE SideMap(tx, s)
<1> DEFINE l == [tag |-> "VCL_call"]
           t == WithRecord(tx, l)
<1>1. l.tag = "VCL_call" /\ l \in Lines
  BY WorkerLinesAreLines
<1> HIDE DEF l
<1>2. VCLCall(l)
  BY <1>1, InnerRead DEF l
<1>3. /\ t.reqHeaders = tx.reqHeaders /\ t.respHeaders = tx.respHeaders /\ t \in TxType
      /\ lastHeader \in {"none", "req", "resp"}
  BY <1>1, RecordKeepsHeaders, WithRecordType DEF TypeOK
<1> HIDE DEF t
<1>4. \A s \in Sides : SideMap(tx', s) = IF clientHeaders /\ lastHeader = s
                                          THEN MergeTempHeaders(SideMap(tx, s), tempHeaders)
                                          ELSE SideMap(tx, s)
  <2>1. CASE ~clientHeaders \/ lastHeader = "none"
    <3>1. tx' = t
      BY <1>2, <1>3, <2>1 DEF VCLCall, t
    <3> QED BY <1>3, <2>1, <3>1 DEF SideMap, Sides
  <2>2. CASE clientHeaders /\ lastHeader = "req"
    <3>1. tx' = [t EXCEPT !.reqHeaders = MergeTempHeaders(t.reqHeaders, tempHeaders)]
      BY <1>2, <1>3, <2>2 DEF VCLCall, t
    <3>2. /\ tx'.reqHeaders = MergeTempHeaders(t.reqHeaders, tempHeaders)
          /\ tx'.respHeaders = t.respHeaders
      BY <1>3, <3>1 DEF TxType
    <3> QED BY <1>3, <2>2, <3>2 DEF SideMap, Sides
  <2>3. CASE clientHeaders /\ lastHeader = "resp"
    <3>1. tx' = [t EXCEPT !.respHeaders = MergeTempHeaders(t.respHeaders, tempHeaders)]
      BY <1>2, <1>3, <2>3 DEF VCLCall, t
    <3>2. /\ tx'.respHeaders = MergeTempHeaders(t.respHeaders, tempHeaders)
          /\ tx'.reqHeaders = t.reqHeaders
      BY <1>3, <3>1 DEF TxType
    <3> QED BY <1>3, <2>3, <3>2 DEF SideMap, Sides
  <2> QED BY <1>3, <2>1, <2>2, <2>3
<1>5. /\ pc' = "inner" /\ clientHeaders' = FALSE /\ UNCHANGED lastHeader
      /\ ~clientHeaders => tempHeaders' = tempHeaders
      /\ clientHeaders => tempHeaders' = NoHeaders
  BY <1>2 DEF VCLCall, Scan
<1> QED BY <1>4, <1>5

\* A header is added where it belongs: aside when Varnish itself may have changed it,
\* as received or as processed to the map of its side (parser.go, 158-171).
LEMMA HeaderRead ==
  ASSUME TypeOK, pc = "inner", kind \in {"client", "backend"},
         NEW side \in Sides, NEW n \in Names, NEW v \in Used, ReadLine(HeaderLine(side, n, v))
  PROVE  /\ pc' = "inner" /\ UNCHANGED clientHeaders /\ lastHeader' = side
         /\ \A s \in Sides : s # side => SideMap(tx', s) = SideMap(tx, s)
         /\ clientHeaders /\ CoreName(side, n) =>
              /\ SideMap(tx', side) = SideMap(tx, side)
              /\ tempHeaders' = AddProcessedHeaders(tempHeaders, n, v)
         /\ ~(clientHeaders /\ CoreName(side, n)) =>
              /\ tempHeaders' = tempHeaders
              /\ SideMap(tx', side) =
                   IF clientHeaders THEN Add(SideMap(tx, side), n, v, "Received")
                   ELSE AddProcessedHeaders(SideMap(tx, side), n, v)
<1> DEFINE l == HeaderLine(side, n, v)
           t == WithRecord(tx, l)
           h == HeadersOf(tx, l.tag)
           g == IF clientHeaders THEN Add(h, n, v, "Received") ELSE AddProcessedHeaders(h, n, v)
<1>1. /\ l.tag = HeaderTag(side) /\ l.name = n /\ l.value = v
      /\ l.tag \in HeaderTags /\ l \in Lines
  BY WorkerTags, WorkerLinesAreLines DEF HeaderLine
<1>2. /\ IsRespTag(l.tag) <=> side = "resp"
      /\ IsVarnishModifiedHeader(n, l.tag) <=> CoreName(side, n)
  BY <1>1, WorkerTags
<1> HIDE DEF l
<1>3. HeaderRecord(l)
  BY <1>1, InnerRead DEF l
<1>4. t.reqHeaders = tx.reqHeaders /\ t.respHeaders = tx.respHeaders /\ t \in TxType
  BY <1>1, RecordKeepsHeaders, WithRecordType DEF TypeOK
<1>5. h = SideMap(tx, side)
  BY <1>2 DEF HeadersOf, SideMap, Sides
<1>6. /\ clientHeaders /\ CoreName(side, n) =>
           tx' = t /\ tempHeaders' = AddProcessedHeaders(tempHeaders, n, v)
      /\ ~(clientHeaders /\ CoreName(side, n)) =>
           tx' = WithHeaders(t, l.tag, g) /\ tempHeaders' = tempHeaders
  BY <1>1, <1>2, <1>3 DEF HeaderRecord
<1> HIDE DEF t, h, g
<1>7. /\ WithHeaders(t, l.tag, g) = IF side = "resp" THEN [t EXCEPT !.respHeaders = g]
                                    ELSE [t EXCEPT !.reqHeaders = g]
  BY <1>2 DEF WithHeaders
<1>8. /\ SideMap(WithHeaders(t, l.tag, g), side) = g
      /\ \A s \in Sides : s # side => SideMap(WithHeaders(t, l.tag, g), s) = SideMap(t, s)
  BY <1>4, <1>7 DEF SideMap, Sides, TxType
<1>9. \A s \in Sides : SideMap(t, s) = SideMap(tx, s)
  BY <1>4 DEF SideMap
<1>10. /\ pc' = "inner" /\ UNCHANGED clientHeaders
       /\ lastHeader' = IF IsRespTag(l.tag) THEN "resp" ELSE "req"
  BY <1>3 DEF HeaderRecord, Scan
<1>11. lastHeader' = side
  BY <1>2, <1>10 DEF Sides
<1> QED BY <1>5, <1>6, <1>8, <1>9, <1>10, <1>11 DEF g

\* An unset deletes the header in the map of its side and aside, where it leaves the value
\* as received when Varnish itself may have removed it (parser.go, 141-156).
LEMMA UnsetRead ==
  ASSUME TypeOK, pc = "inner", kind \in {"client", "backend"},
         NEW side \in Sides, NEW n \in Names, NEW v \in Used, ReadLine(UnsetLine(side, n, v))
  PROVE  /\ pc' = "inner" /\ UNCHANGED <<clientHeaders, lastHeader>>
         /\ \A s \in Sides : s # side => SideMap(tx', s) = SideMap(tx, s)
         /\ SideMap(tx', side) = Delete(SideMap(tx, side), n)
         /\ tempHeaders' = Delete(IF clientHeaders /\ CoreName(side, n)
                                  THEN Add(tempHeaders, n, v, "Received") ELSE tempHeaders, n)
<1> DEFINE l == UnsetLine(side, n, v)
           t == WithRecord(tx, l)
           h == HeadersOf(tx, l.tag)
           g == Delete(h, n)
<1>1. /\ l.tag = UnsetTag(side) /\ l.name = n /\ l.value = v
      /\ l.tag \in UnsetTags /\ l \in Lines
  BY WorkerTags, WorkerLinesAreLines DEF UnsetLine
<1>2. /\ IsRespTag(l.tag) <=> side = "resp"
      /\ IsVarnishModifiedHeader(n, l.tag) <=> CoreName(side, n)
  BY <1>1, WorkerTags
<1> HIDE DEF l
<1>3. HeaderUnset(l)
  BY <1>1, InnerRead DEF l
<1>4. t.reqHeaders = tx.reqHeaders /\ t.respHeaders = tx.respHeaders /\ t \in TxType
  BY <1>1, RecordKeepsHeaders, WithRecordType DEF TypeOK
<1>5. h = SideMap(tx, side)
  BY <1>2 DEF HeadersOf, SideMap, Sides
<1>6. tx' = WithHeaders(t, l.tag, g)
  BY <1>1, <1>3 DEF HeaderUnset
<1>7. tempHeaders' = Delete(IF clientHeaders /\ CoreName(side, n)
                            THEN Add(tempHeaders, n, v, "Received") ELSE tempHeaders, n)
  BY <1>1, <1>2, <1>3 DEF HeaderUnset
<1> HIDE DEF t, h, g
<1>8. /\ WithHeaders(t, l.tag, g) = IF side = "resp" THEN [t EXCEPT !.respHeaders = g]
                                    ELSE [t EXCEPT !.reqHeaders = g]
  BY <1>2 DEF WithHeaders
<1>9. /\ SideMap(WithHeaders(t, l.tag, g), side) = g
      /\ \A s \in Sides : s # side => SideMap(WithHeaders(t, l.tag, g), s) = SideMap(t, s)
  BY <1>4, <1>8 DEF SideMap, Sides, TxType
<1>10. \A s \in Sides : SideMap(t, s) = SideMap(tx, s)
  BY <1>4 DEF SideMap
<1>11. pc' = "inner" /\ UNCHANGED <<clientHeaders, lastHeader>>
  BY <1>3 DEF HeaderUnset, Scan
<1> QED BY <1>5, <1>6, <1>7, <1>9, <1>10, <1>11 DEF g

-----------------------------------------------------------------------------
(* One header in one map *)

\* Headers.Add, on any name (header.go, 117-161).
LEMMA AddAny ==
  ASSUME NEW h \in HeadersType, NEW n \in Names, NEW value, NEW state
  PROVE  LET g == Add(h, n, value, state)
         IN  /\ Elsewhere(g, h, n)
             /\ g[n].values = Append(IF state = "Modified" \/ n = HdrNameHost THEN <<>>
                                     ELSE h[n].values,
                                     [value |-> value, state |-> state])
             /\ g[n].receivedValues = IF state = "Received"
                                      THEN Append(h[n].receivedValues, value)
                                      ELSE h[n].receivedValues
<1>1. CanonicalHeaderName[n] = n
  BY SpellingsAssumption
<1> QED BY <1>1 DEF Add, HeadersType, Elsewhere

\* The state addProcessedHeaders gives the next value (parser.go, 389-399).
NextState(values) ==
  IF values = <<>> \/ values[1].value = Empty THEN "Added" ELSE "Modified"

LEMMA ProcessedOn ==
  ASSUME NEW h \in HeadersType, NEW n \in Names, NEW v
  PROVE  LET g  == AddProcessedHeaders(h, n, v)
             st == NextState(h[n].values)
         IN  /\ Elsewhere(g, h, n)
             /\ g[n].values = Append(IF st = "Modified" \/ n = HdrNameHost THEN <<>>
                                     ELSE h[n].values, [value |-> v, state |-> st])
             /\ g[n].receivedValues = h[n].receivedValues
<1> DEFINE st == NextState(h[n].values)
<1>1. CanonicalHeaderName[n] = n
  BY SpellingsAssumption
<1>2. Get(h, n) = IF h[n].values = <<>> THEN Empty ELSE h[n].values[1].value
  BY <1>1 DEF Get
<1>3. AddProcessedHeaders(h, n, v) = Add(h, n, v, st)
  BY <1>2 DEF AddProcessedHeaders, NextState
<1>4. st # "Received"
  BY DEF NextState
<1> HIDE DEF st
<1>5. /\ Elsewhere(Add(h, n, v, st), h, n)
      /\ Add(h, n, v, st)[n].values =
           Append(IF st = "Modified" \/ n = HdrNameHost THEN <<>> ELSE h[n].values,
                  [value |-> v, state |-> st])
      /\ Add(h, n, v, st)[n].receivedValues = h[n].receivedValues
  BY <1>4, AddAny
<1> QED BY <1>3, <1>5 DEF st

\* The first value of a longer list.
LEMMA FirstOfLonger ==
  ASSUME NEW S, NEW s \in Seq(S), NEW x \in S
  PROVE  /\ Append(s, x) # <<>> /\ Len(Append(s, x)) = Len(s) + 1
         /\ Append(s, x)[1] = IF s = <<>> THEN x ELSE s[1]
<1>1. /\ Len(s) \in Nat /\ Append(s, x) \in Seq(S) /\ Len(Append(s, x)) = Len(s) + 1
      /\ \A i \in 1..Len(s) : Append(s, x)[i] = s[i]
      /\ Append(s, x)[Len(s) + 1] = x
  BY LenProperties, AppendProperties
<1>2. s = <<>> <=> Len(s) = 0
  BY EmptySeq
<1>3. Append(s, x) # <<>>
  BY <1>1, EmptySeq
<1>4. s # <<>> => 1 \in 1..Len(s)
  BY <1>1, <1>2
<1> QED BY <1>1, <1>2, <1>3, <1>4

\* A value that is set where none is left: it is the only live one.
LEMMA SetOn ==
  ASSUME NEW h, Good(h), NEW n \in Names, NEW v \in Values, Live(h[n].values) = <<>>
  PROVE  LET g  == AddProcessedHeaders(h, n, v)
             st == NextState(h[n].values)
         IN  /\ Elsewhere(g, h, n)
             /\ g[n].receivedValues = h[n].receivedValues
             /\ g[n].values # <<>> /\ (n = HdrNameHost => Len(g[n].values) = 1)
             /\ Live(g[n].values) = <<[value |-> v, state |-> st]>>
             /\ NDeleted(g[n].values) = IF st = "Modified" \/ n = HdrNameHost THEN 0
                                        ELSE NDeleted(h[n].values)
             /\ g[n].values[1].value \in {v, h[n].values[1].value}
             /\ h[n].values = <<>> => g[n].values[1].value = v
<1> DEFINE st == NextState(h[n].values)
           kept == IF st = "Modified" \/ n = HdrNameHost THEN <<>> ELSE h[n].values
           x == [value |-> v, state |-> st]
           g == AddProcessedHeaders(h, n, v)
<1>1. h \in HeadersType /\ h[n].values \in Seq(HdrValue) /\ WellFormedValues(h[n].values)
  BY GoodHeader DEF Good
<1>2. st \in {"Added", "Modified"}
  BY DEF NextState
<1>3. x \in HdrValue /\ x.state # "Deleted" /\ (x.state = "Modified" => kept = <<>>) /\ x.value = v
  BY <1>2 DEF HdrValue, HdrState
<1>4. /\ Elsewhere(g, h, n) /\ g[n].receivedValues = h[n].receivedValues
      /\ g[n].values = Append(kept, x)
  BY <1>1, ProcessedOn
<1>5. /\ kept \in Seq(HdrValue) /\ WellFormedValues(kept) /\ Live(kept) = <<>>
      /\ NDeleted(kept) = IF st = "Modified" \/ n = HdrNameHost THEN 0
                          ELSE NDeleted(h[n].values)
      /\ (n = HdrNameHost => kept = <<>>) /\ (h[n].values = <<>> => kept = <<>>)
      /\ kept \in {<<>>, h[n].values}
  BY <1>1, LiveOfNone
<1> HIDE DEF g, x, kept, st
<1>6. NDeleted(g[n].values) = NDeleted(kept) /\ Live(g[n].values) = Append(<<>>, x)
  BY <1>3, <1>4, <1>5, LiveAppend
<1>7. /\ g[n].values # <<>> /\ Len(g[n].values) = Len(kept) + 1
      /\ g[n].values[1] = IF kept = <<>> THEN x ELSE kept[1]
  BY <1>3, <1>4, <1>5, FirstOfLonger
<1>8. Append(<<>>, x) = <<x>> /\ Len(<<>>) = 0
  OBVIOUS
<1>9. n = HdrNameHost => Len(g[n].values) = 1
  BY <1>5, <1>7, <1>8
<1>10. /\ g[n].values[1].value \in {v, h[n].values[1].value}
       /\ h[n].values = <<>> => g[n].values[1].value = v
  BY <1>3, <1>5, <1>7
<1> QED BY <1>4, <1>5, <1>6, <1>7, <1>8, <1>9, <1>10 DEF g, st, x

\* A value that is received (header.go, 139-158).
LEMMA ReceiveOn ==
  ASSUME NEW h, Good(h), NEW n \in Names, NEW v \in Values, n = HdrNameHost => h[n].values = <<>>
  PROVE  LET g == Add(h, n, v, "Received")
         IN  /\ Elsewhere(g, h, n)
             /\ g[n].receivedValues = Append(h[n].receivedValues, v)
             /\ g[n].values = Append(h[n].values, [value |-> v, state |-> "Received"])
             /\ g[n].values # <<>> /\ (n = HdrNameHost => Len(g[n].values) = 1)
             /\ Live(g[n].values) =
                  Append(Live(h[n].values), [value |-> v, state |-> "Received"])
             /\ NDeleted(g[n].values) = NDeleted(h[n].values)
             /\ g[n].values[1].value \in {v, h[n].values[1].value}
             /\ h[n].values = <<>> => g[n].values[1].value = v
<1> DEFINE r == "Received"
           x == [value |-> v, state |-> r]
           g == Add(h, n, v, r)
<1>1. h \in HeadersType /\ h[n].values \in Seq(HdrValue) /\ WellFormedValues(h[n].values)
  BY GoodHeader DEF Good
<1>2. x \in HdrValue /\ x.state # "Deleted" /\ x.state # "Modified" /\ x.value = v
  BY DEF HdrValue, HdrState
<1>3. r = "Received" /\ r # "Modified"
  OBVIOUS
<1> HIDE DEF r, x
<1>4. /\ Elsewhere(g, h, n) /\ g[n].receivedValues = Append(h[n].receivedValues, v)
      /\ g[n].values = Append(h[n].values, x)
  <2>1. /\ Elsewhere(g, h, n)
        /\ g[n].values = Append(IF r = "Modified" \/ n = HdrNameHost THEN <<>>
                                ELSE h[n].values, [value |-> v, state |-> r])
        /\ g[n].receivedValues = IF r = "Received" THEN Append(h[n].receivedValues, v)
                                 ELSE h[n].receivedValues
    BY <1>1, AddAny
  <2> HIDE DEF g
  <2>2. (IF r = "Modified" \/ n = HdrNameHost THEN <<>> ELSE h[n].values) = h[n].values
    BY <1>3
  <2> QED BY <1>3, <2>1, <2>2 DEF x
<1> HIDE DEF g
<1>5. /\ NDeleted(g[n].values) = NDeleted(h[n].values)
      /\ Live(g[n].values) = Append(Live(h[n].values), x)
  BY <1>1, <1>2, <1>4, LiveAppend
<1>6. /\ g[n].values # <<>> /\ Len(g[n].values) = Len(h[n].values) + 1
      /\ g[n].values[1] = IF h[n].values = <<>> THEN x ELSE h[n].values[1]
  BY <1>1, <1>2, <1>4, FirstOfLonger
<1>7. n = HdrNameHost => Len(g[n].values) = 1
  <2>1. Len(<<>>) = 0
    OBVIOUS
  <2> QED BY <1>6, <2>1
<1>8. /\ g[n].values[1].value \in {v, h[n].values[1].value}
      /\ h[n].values = <<>> => g[n].values[1].value = v
  BY <1>2, <1>6
<1> QED BY <1>4, <1>5, <1>6, <1>7, <1>8 DEF g, x, r

\* A header that is deleted has no live value (header.go, 163-180).
LEMMA UnsetOn ==
  ASSUME NEW h, Good(h), NEW n \in Names
  PROVE  LET g == Delete(h, n)
         IN  /\ Elsewhere(g, h, n)
             /\ g[n].receivedValues = h[n].receivedValues
             /\ Len(g[n].values) = Len(h[n].values)
             /\ g[n].values = <<>> <=> h[n].values = <<>>
             /\ Live(g[n].values) = <<>> /\ NDeleted(g[n].values) = Len(h[n].values)
             /\ h[n].values # <<>> => g[n].values[1].value = h[n].values[1].value
<1> DEFINE g == Delete(h, n)
<1>1. h \in HeadersType /\ h[n].values \in Seq(HdrValue)
  BY GoodHeader DEF Good
<1>2. /\ Elsewhere(g, h, n) /\ g[n].receivedValues = h[n].receivedValues
      /\ g[n].values = MarkDeleted(h[n].values)
  BY <1>1, DeleteEffect
<1> HIDE DEF g
<1>3. /\ g[n].values \in Seq(HdrValue) /\ NDeleted(g[n].values) = Len(h[n].values)
      /\ Len(g[n].values) = Len(h[n].values) /\ Live(g[n].values) = <<>>
      /\ \A i \in 1..Len(h[n].values) : g[n].values[i].value = h[n].values[i].value
  BY <1>1, <1>2, NothingLive
<1>4. /\ g[n].values = <<>> <=> Len(g[n].values) = 0
      /\ h[n].values = <<>> <=> Len(h[n].values) = 0
  BY <1>1, <1>3, EmptySeq
<1>5. h[n].values # <<>> => 1 \in 1..Len(h[n].values)
  BY <1>1, <1>4, LenProperties
<1> QED BY <1>2, <1>3, <1>4, <1>5 DEF g

-----------------------------------------------------------------------------
(* One header and the worker's own *)

\* A header in the map of its side: the live values are shown, the received ones are
\* those, it is there when the worker's header ever was, and Host has one value.
InPlace(header, shown, from, received, n) ==
  /\ Texts(Live(header.values)) = shown
  /\ from = "none" <=> header.values = <<>>
  /\ header.receivedValues = received
  /\ n = HdrNameHost /\ header.values # <<>> => Len(header.values) = 1

\* A header that is kept aside: what was received is among the received values once it is
\* removed, and then a value that is set either comes behind the removed ones or is alone.
HeldBack(header, was, now, from, received) ==
  /\ Texts(Live(header.values)) = now
  /\ from = "none" <=> header.values = <<>>
  /\ header.receivedValues = received
  /\ NDeleted(header.values) > 0 => header.receivedValues # <<>>
  /\ header.receivedValues # <<>> => NDeleted(header.values) > 0 \/ Alone(header.values)
  /\ Len(was) <= 1
  /\ from = "received" /\ now # <<>> => now = was /\ received = <<>>

NoneEmpty(values) == \A i \in DOMAIN values : values[i] # Empty

\* The states of the live values, for which the first value must not be the empty one.
Stated(values, state) ==
  /\ values # <<>> => values[1].value # Empty
  /\ \A i \in DOMAIN Live(values) : Live(values)[i].state = state

LEMMA NothingShown ==
  ASSUME NEW h, Good(h), NEW n \in Names
  PROVE  /\ Texts(Live(h[n].values)) = <<>> <=> Live(h[n].values) = <<>>
         /\ h[n].values = <<>> => Live(h[n].values) = <<>>
<1>1. h[n].values \in Seq(HdrValue)
  BY GoodHeader
<1>2. Live(h[n].values) \in Seq(HdrValue)
  BY <1>1, LiveType
<1> QED BY <1>2, NoTextsOf, TextsOfNone, LiveOfNone

LEMMA StatedNothing ==
  ASSUME NEW values, NEW state, Live(values) = <<>>,
         values # <<>> => values[1].value # Empty
  PROVE  Stated(values, state)
BY DEF Stated

LEMMA StatedOne ==
  ASSUME NEW values, NEW v, NEW state, Live(values) = <<[value |-> v, state |-> state]>>,
         values # <<>> => values[1].value # Empty
  PROVE  Stated(values, state)
<1>1. DOMAIN Live(values) = {1} /\ Live(values)[1].state = state
  OBVIOUS
<1> QED BY <1>1 DEF Stated

LEMMA ReceivedInPlace ==
  ASSUME NEW h, Good(h), NEW n \in Names, NEW v \in Values, NEW was, NEW from,
         InPlace(h[n], was, from, was, n),
         n = HdrNameHost => from = "none"
  PROVE  LET g == Add(h, n, v, "Received")
         IN  /\ Elsewhere(g, h, n)
             /\ InPlace(g[n], Append(was, v), "received", Append(was, v), n)
             /\ v # Empty /\ Stated(h[n].values, "Received") => Stated(g[n].values, "Received")
<1> DEFINE r == "Received"
           x == [value |-> v, state |-> r]
           g == Add(h, n, v, "Received")
<1>1. h[n].values \in Seq(HdrValue) /\ Live(h[n].values) \in Seq(HdrValue)
  BY GoodHeader, LiveType
<1>2. x \in HdrValue /\ x.value = v /\ x.state = r
  BY DEF HdrValue, HdrState
<1>3. n = HdrNameHost => h[n].values = <<>>
  BY DEF InPlace
<1>4. /\ Elsewhere(g, h, n)
      /\ g[n].receivedValues = Append(h[n].receivedValues, v)
      /\ g[n].values # <<>> /\ (n = HdrNameHost => Len(g[n].values) = 1)
      /\ Live(g[n].values) = Append(Live(h[n].values), x)
      /\ g[n].values[1].value \in {v, h[n].values[1].value}
      /\ h[n].values = <<>> => g[n].values[1].value = v
  BY <1>3, ReceiveOn
<1> HIDE DEF g, x
<1>5. Texts(Live(g[n].values)) = Append(Texts(Live(h[n].values)), v)
  BY <1>1, <1>2, <1>4, TextsOfLonger
<1>6. InPlace(g[n], Append(was, v), "received", Append(was, v), n)
  <2>1. Texts(Live(g[n].values)) = Append(was, v)
    BY <1>5 DEF InPlace
  <2>2. "received" = "none" <=> g[n].values = <<>>
    BY <1>4
  <2>3. g[n].receivedValues = Append(was, v)
    BY <1>4 DEF InPlace
  <2>4. n = HdrNameHost => Len(g[n].values) = 1
    BY <1>4
  <2> QED BY <2>1, <2>2, <2>3, <2>4 DEF InPlace
<1>7. ASSUME v # Empty, Stated(h[n].values, "Received")
      PROVE  Stated(g[n].values, "Received")
  <2>1. g[n].values[1].value # Empty
    BY <1>4, <1>7 DEF Stated
  <2> DEFINE live1 == Live(h[n].values)
             longer == Append(live1, x)
  <2>2. /\ DOMAIN live1 = 1..Len(live1) /\ DOMAIN longer = 1..(Len(live1) + 1)
        /\ Len(live1) \in Nat /\ longer[Len(live1) + 1] = x
        /\ \A i \in 1..Len(live1) : longer[i] = live1[i]
    <3> HIDE DEF live1
    <3> QED BY <1>1, <1>2, LenProperties DEF live1
  <2>3. \A i \in DOMAIN live1 : live1[i].state = r
    BY <1>7 DEF Stated
  <2> HIDE DEF live1, longer
  <2>4. \A i \in 1..(Len(live1) + 1) : i \in 1..Len(live1) \/ i = Len(live1) + 1
    BY <2>2
  <2>5. \A i \in DOMAIN longer : longer[i].state = r
    BY <1>2, <2>2, <2>3, <2>4
  <2>6. Live(g[n].values) = longer
    BY <1>4 DEF longer, live1
  <2> QED BY <2>1, <2>5, <2>6 DEF Stated
<1> QED BY <1>4, <1>6, <1>7 DEF g

\* What the next state of a header says of the worker's: whether it ever had a value.
LEMMA NextStateTells ==
  ASSUME NEW values, NEW from, from = "none" <=> values = <<>>,
         values # <<>> => values[1].value # Empty
  PROVE  NextState(values) = IF from = "none" THEN "Added" ELSE "Modified"
BY DEF NextState

LEMMA SetInPlace ==
  ASSUME NEW h, Good(h), NEW n \in Names, NEW v \in Values, NEW from, NEW received,
         InPlace(h[n], <<>>, from, received, n)
  PROVE  LET g    == AddProcessedHeaders(h, n, v)
             next == IF from = "none" THEN "first" ELSE "again"
             st   == IF from = "none" THEN "Added" ELSE "Modified"
         IN  /\ Elsewhere(g, h, n)
             /\ InPlace(g[n], <<v>>, next, received, n)
             /\ v # Empty /\ (h[n].values # <<>> => h[n].values[1].value # Empty) =>
                  Stated(g[n].values, st)
<1> DEFINE g == AddProcessedHeaders(h, n, v)
           next == IF from = "none" THEN "first" ELSE "again"
           st == IF from = "none" THEN "Added" ELSE "Modified"
           sn == NextState(h[n].values)
           x == [value |-> v, state |-> sn]
<1>1. Live(h[n].values) = <<>>
  BY NothingShown DEF InPlace
<1>2. /\ Elsewhere(g, h, n) /\ g[n].receivedValues = h[n].receivedValues
      /\ g[n].values # <<>> /\ (n = HdrNameHost => Len(g[n].values) = 1)
      /\ Live(g[n].values) = <<x>>
      /\ g[n].values[1].value \in {v, h[n].values[1].value}
      /\ h[n].values = <<>> => g[n].values[1].value = v
  BY <1>1, SetOn
<1>3. x \in HdrValue /\ x.value = v
  BY DEF HdrValue, HdrState, NextState
<1> HIDE DEF g
<1>4. Texts(<<x>>) = <<v>>
  <2> HIDE DEF x
  <2>1. <<>> \in Seq(HdrValue) /\ Append(<<>>, x) = <<x>> /\ Append(<<>>, v) = <<v>>
    OBVIOUS
  <2> QED BY <1>3, <2>1, TextsOfLonger, TextsOfNone
<1>5. next # "none"
  OBVIOUS
<1>6. InPlace(g[n], <<v>>, next, received, n)
  <2> HIDE DEF x, next
  <2>1. Texts(Live(g[n].values)) = <<v>>
    BY <1>2, <1>4
  <2>2. next = "none" <=> g[n].values = <<>>
    BY <1>2, <1>5
  <2>3. g[n].receivedValues = received
    BY <1>2 DEF InPlace
  <2>4. n = HdrNameHost => Len(g[n].values) = 1
    BY <1>2
  <2> QED BY <2>1, <2>2, <2>3, <2>4 DEF InPlace
<1>7. ASSUME v # Empty, h[n].values # <<>> => h[n].values[1].value # Empty
      PROVE  Stated(g[n].values, st)
  <2>1. sn = st
    <3> HIDE DEF st
    <3> QED BY <1>7, NextStateTells DEF InPlace, st
  <2>2. g[n].values[1].value # Empty
    BY <1>2, <1>7
  <2> HIDE DEF sn, st
  <2> QED BY <1>2, <2>1, <2>2, StatedOne DEF x
<1> QED BY <1>2, <1>6, <1>7 DEF g

LEMMA UnsetInPlace ==
  ASSUME NEW h, Good(h), NEW n \in Names, NEW shown, NEW from, NEW received,
         InPlace(h[n], shown, from, received, n)
  PROVE  LET g == Delete(h, n)
         IN  /\ Elsewhere(g, h, n)
             /\ InPlace(g[n], <<>>, from, received, n)
             /\ (h[n].values # <<>> => h[n].values[1].value # Empty) =>
                  \A state : Stated(g[n].values, state)
<1> DEFINE g == Delete(h, n)
<1>1. /\ Elsewhere(g, h, n) /\ g[n].receivedValues = h[n].receivedValues
      /\ Len(g[n].values) = Len(h[n].values)
      /\ g[n].values = <<>> <=> h[n].values = <<>>
      /\ Live(g[n].values) = <<>>
      /\ h[n].values # <<>> => g[n].values[1].value = h[n].values[1].value
  BY UnsetOn
<1> HIDE DEF g
<1>2. InPlace(g[n], <<>>, from, received, n)
  BY <1>1, TextsOfNone DEF InPlace
<1>3. (h[n].values # <<>> => h[n].values[1].value # Empty) =>
        \A state : Stated(g[n].values, state)
  BY <1>1, StatedNothing
<1> QED BY <1>1, <1>2, <1>3 DEF g

-----------------------------------------------------------------------------
(* One header that is kept aside *)

LEMMA ReceivedAside ==
  ASSUME NEW t, Good(t), NEW n \in Names, n # HdrNameHost, NEW v \in Values,
         t[n].values = <<>>, t[n].receivedValues = <<>>
  PROVE  LET g == AddProcessedHeaders(t, n, v)
         IN  /\ Elsewhere(g, t, n)
             /\ HeldBack(g[n], <<v>>, <<v>>, "received", <<>>)
             /\ v # Empty => Stated(g[n].values, "Added")
<1> DEFINE g == AddProcessedHeaders(t, n, v)
           x == [value |-> v, state |-> "Added"]
<1>1. t[n].values = <<>> /\ t[n].receivedValues = <<>>
  OBVIOUS
<1>2. Live(t[n].values) = <<>> /\ NDeleted(t[n].values) = 0 /\ NextState(t[n].values) = "Added"
  BY <1>1, LiveOfNone DEF NextState
<1>3. /\ Elsewhere(g, t, n) /\ g[n].receivedValues = t[n].receivedValues
      /\ g[n].values # <<>>
      /\ Live(g[n].values) = <<[value |-> v, state |-> NextState(t[n].values)]>>
      /\ NDeleted(g[n].values) = IF NextState(t[n].values) = "Modified" \/ n = HdrNameHost THEN 0
                                 ELSE NDeleted(t[n].values)
      /\ t[n].values = <<>> => g[n].values[1].value = v
  BY <1>2, SetOn
<1> HIDE DEF g
<1>4. /\ Live(g[n].values) = <<x>> /\ NDeleted(g[n].values) = 0
      /\ g[n].receivedValues = <<>> /\ g[n].values[1].value = v
  BY <1>1, <1>2, <1>3
<1>5. Texts(<<x>>) = <<v>>
  <2>1. x \in HdrValue /\ x.value = v
    BY DEF HdrValue, HdrState
  <2> HIDE DEF x
  <2>2. <<>> \in Seq(HdrValue) /\ Append(<<>>, x) = <<x>> /\ Append(<<>>, v) = <<v>>
    OBVIOUS
  <2> QED BY <2>1, <2>2, TextsOfLonger, TextsOfNone
<1>6. HeldBack(g[n], <<v>>, <<v>>, "received", <<>>)
  <2>1. Texts(Live(g[n].values)) = <<v>>
    BY <1>4, <1>5
  <2>2. Len(<<v>>) <= 1
    OBVIOUS
  <2>3. ~(NDeleted(g[n].values) > 0)
    BY <1>4
  <2> QED BY <1>3, <1>4, <2>1, <2>2, <2>3 DEF HeldBack
<1>7. v # Empty => Stated(g[n].values, "Added")
  BY <1>4, StatedOne
<1> QED BY <1>3, <1>6, <1>7 DEF g

LEMMA SetAside ==
  ASSUME NEW t, Good(t), NEW n \in Names, n # HdrNameHost, NEW v \in Values,
         NEW was, NEW from, NEW received, HeldBack(t[n], was, <<>>, from, received)
  PROVE  LET g    == AddProcessedHeaders(t, n, v)
             next == IF from = "none" THEN "first" ELSE "again"
             st   == IF from = "none" THEN "Added" ELSE "Modified"
         IN  /\ Elsewhere(g, t, n)
             /\ HeldBack(g[n], was, <<v>>, next, received)
             /\ v # Empty /\ (t[n].values # <<>> => t[n].values[1].value # Empty) =>
                  Stated(g[n].values, st)
<1> DEFINE g == AddProcessedHeaders(t, n, v)
           next == IF from = "none" THEN "first" ELSE "again"
           st == IF from = "none" THEN "Added" ELSE "Modified"
           sn == NextState(t[n].values)
           x == [value |-> v, state |-> sn]
<1>1. Live(t[n].values) = <<>>
  BY NothingShown DEF HeldBack
<1>2. /\ Elsewhere(g, t, n) /\ g[n].receivedValues = t[n].receivedValues
      /\ g[n].values # <<>>
      /\ Live(g[n].values) = <<x>>
      /\ NDeleted(g[n].values) = IF sn = "Modified" \/ n = HdrNameHost THEN 0
                                 ELSE NDeleted(t[n].values)
      /\ g[n].values[1].value \in {v, t[n].values[1].value}
      /\ t[n].values = <<>> => g[n].values[1].value = v
  BY <1>1, SetOn
<1>3. x \in HdrValue /\ x.value = v /\ x.state = sn
  BY DEF HdrValue, HdrState, NextState
<1> HIDE DEF g, x, sn
<1>4. Texts(<<x>>) = <<v>>
  <2>1. <<>> \in Seq(HdrValue) /\ Append(<<>>, x) = <<x>> /\ Append(<<>>, v) = <<v>>
    OBVIOUS
  <2> QED BY <1>3, <2>1, TextsOfLonger, TextsOfNone
<1>5. next # "none" /\ next # "received"
  OBVIOUS
<1>6. HeldBack(g[n], was, <<v>>, next, received)
  <2> HIDE DEF next
  <2>1. Texts(Live(g[n].values)) = <<v>>
    BY <1>2, <1>4
  <2>2. next = "none" <=> g[n].values = <<>>
    BY <1>2, <1>5
  <2>3. g[n].receivedValues = received /\ Len(was) <= 1
    BY <1>2 DEF HeldBack
  <2>4. NDeleted(g[n].values) > 0 => g[n].receivedValues # <<>>
    <3>1. ~(0 > 0)
      OBVIOUS
    <3> QED BY <1>2, <3>1 DEF HeldBack
  <2>5. g[n].receivedValues # <<>> => NDeleted(g[n].values) > 0 \/ Alone(g[n].values)
    <3>1. t[n].receivedValues # <<>> => NDeleted(t[n].values) > 0
      BY <1>1 DEF HeldBack, Alone
    <3>2. sn = "Modified" => Alone(g[n].values)
      <4>1. <<x>> # <<>> /\ <<x>>[1] = x
        OBVIOUS
      <4> QED BY <1>2, <1>3, <4>1 DEF Alone
    <3> QED BY <1>2, <3>1, <3>2
  <2> QED BY <1>5, <2>1, <2>2, <2>3, <2>4, <2>5 DEF HeldBack
<1>7. ASSUME v # Empty, t[n].values # <<>> => t[n].values[1].value # Empty
      PROVE  Stated(g[n].values, st)
  <2>1. sn = st
    <3> HIDE DEF st
    <3> QED BY <1>7, NextStateTells DEF HeldBack, sn, st
  <2>2. g[n].values[1].value # Empty
    BY <1>2, <1>7
  <2> HIDE DEF st
  <2> QED BY <1>2, <2>1, <2>2, StatedOne DEF x
<1> QED BY <1>2, <1>6, <1>7 DEF g

LEMMA OneElement ==
  ASSUME NEW S, NEW s \in Seq(S), s # <<>>, Len(s) <= 1
  PROVE  Len(s) = 1 /\ s[1] \in S /\ s = <<s[1]>> /\ Head(s) = s[1] /\ Tail(s) = <<>>
<1>1. Len(s) = 1
  <2>1. Len(s) \in Nat
    BY LenProperties
  <2>2. Len(s) # 0
    BY EmptySeq
  <2> DEFINE k == Len(s)
  <2> HIDE DEF k
  <2>3. k \in Nat /\ k # 0 /\ k <= 1 => k = 1
    OBVIOUS
  <2> QED BY <2>1, <2>2, <2>3 DEF k
<1>2. s[1] \in S
  BY <1>1, ElementOfSeq
<1>3. s = <<s[1]>>
  <2>1. <<s[1]>> \in Seq(S) /\ Len(<<s[1]>>) = 1 /\ <<s[1]>>[1] = s[1]
    BY <1>2
  <2>2. \A i \in 1..1 : i = 1
    OBVIOUS
  <2> QED BY <1>1, <2>1, <2>2, SeqEqual
<1>4. Head(s) = s[1] /\ Tail(s) \in Seq(S) /\ Len(Tail(s)) = 0
  BY <1>1, HeadTailProperties
<1>5. Tail(s) = <<>>
  BY <1>4, EmptySeq
<1> QED BY <1>1, <1>2, <1>3, <1>4, <1>5

\* What Varnish removes of its own accord was received, and had not been removed.
LEMMA RemovedAside ==
  ASSUME NEW t, Good(t), NEW n \in Names, n # HdrNameHost,
         NEW was \in Seq(Values), NEW now, now # <<>>, NEW received,
         HeldBack(t[n], was, now, "received", received)
  PROVE  LET g == Delete(Add(t, n, Head(now), "Received"), n)
         IN  /\ Tail(now) = <<>>
             /\ Elsewhere(g, t, n)
             /\ HeldBack(g[n], was, <<>>, "received", was)
             /\ Head(now) # Empty /\ (t[n].values # <<>> => t[n].values[1].value # Empty) =>
                  \A state : Stated(g[n].values, state)
<1> DEFINE v == Head(now)
           a == Add(t, n, v, "Received")
           g == Delete(a, n)
<1>1. now = was /\ Len(was) <= 1 /\ t[n].receivedValues = <<>>
  BY DEF HeldBack
<1>2. Len(was) = 1 /\ was = <<v>> /\ v \in Values /\ Tail(now) = <<>>
  <2>1. /\ Len(was) = 1 /\ was[1] \in Values /\ was = <<was[1]>>
        /\ Head(was) = was[1] /\ Tail(was) = <<>>
    BY <1>1, OneElement
  <2> QED BY <1>1, <2>1
<1> HIDE DEF v
<1>3. /\ Good(a) /\ Elsewhere(a, t, n) /\ a[n].receivedValues = Append(t[n].receivedValues, v)
      /\ a[n].values # <<>>
      /\ a[n].values[1].value \in {v, t[n].values[1].value}
      /\ t[n].values = <<>> => a[n].values[1].value = v
  <2> DEFINE r == "Received"
  <2>1. r \in HdrState /\ r # "Deleted" /\ n \in Spellings
    BY SpellingsAssumption DEF HdrState, Names
  <2>2. Good(Add(t, n, v, r))
    <3> HIDE DEF r
    <3> QED BY <1>2, <2>1, AddGood
  <2> HIDE DEF a
  <2> QED BY <1>2, <2>2, ReceiveOn DEF a
<1> HIDE DEF a
<1>4. /\ Elsewhere(g, a, n) /\ g[n].receivedValues = a[n].receivedValues
      /\ g[n].values = <<>> <=> a[n].values = <<>>
      /\ Live(g[n].values) = <<>> /\ NDeleted(g[n].values) = Len(a[n].values)
      /\ a[n].values # <<>> => g[n].values[1].value = a[n].values[1].value
  BY <1>3, UnsetOn
<1> HIDE DEF g
<1>5. Elsewhere(g, t, n)
  BY <1>3, <1>4 DEF Elsewhere
<1>6. g[n].receivedValues = was /\ was # <<>>
  <2>1. Append(<<>>, v) = <<v>> /\ <<v>> # <<>>
    OBVIOUS
  <2> QED BY <1>1, <1>2, <1>3, <1>4, <2>1
<1>7. NDeleted(g[n].values) > 0
  <2>1. a[n].values \in Seq(HdrValue)
    BY <1>3, GoodHeader
  <2>2. Len(a[n].values) \in Nat /\ Len(a[n].values) # 0
    BY <1>3, <2>1, EmptySeq, LenProperties
  <2> QED BY <1>4, <2>2
<1>8. HeldBack(g[n], was, <<>>, "received", was)
  BY <1>1, <1>3, <1>4, <1>6, <1>7, TextsOfNone DEF HeldBack
<1>9. ASSUME v # Empty, t[n].values # <<>> => t[n].values[1].value # Empty
      PROVE  \A state : Stated(g[n].values, state)
  <2>1. g[n].values[1].value # Empty
    BY <1>3, <1>4, <1>9
  <2> QED BY <1>4, <2>1, StatedNothing
<1> QED BY <1>2, <1>5, <1>8, <1>9 DEF g, a, v

\* A header that is not kept aside is not touched by the merge (parser.go, 353-368).
LEMMA MergeElsewhere ==
  ASSUME NEW h \in HeadersType, NEW t, NEW n \in Names, t[n] = NoHeader
  PROVE  MergeTempHeaders(h, t)[n] = h[n]
<1>1. n \notin Present(t)
  BY DEF Present, NoHeader
<1> QED BY <1>1 DEF MergeTempHeaders

\* What the merge makes of the values of a header that is only kept aside: the received
\* ones are there as deleted, and the live ones behind them (parser.go, 369-383).
LEMMA MergedIntoNone ==
  ASSUME NEW temp \in Header, WellFormedValues(temp.values),
         NDeleted(temp.values) > 0 => temp.receivedValues # <<>>,
         temp.receivedValues # <<>> => NDeleted(temp.values) > 0 \/ Alone(temp.values),
         temp.values # <<>>
  PROVE  LET merged == MergedValues(<<>>, temp)
         IN  /\ merged # <<>> /\ Live(merged) = Live(temp.values)
             /\ \/ Live(temp.values) # <<>> /\ merged[1] = Live(temp.values)[1]
                \/ temp.receivedValues # <<>> /\ merged[1].value = temp.receivedValues[1]
             /\ temp.receivedValues # <<>> \/ Live(temp.values) # <<>>
<1> DEFINE received == AsReceived(temp.receivedValues)
           base == <<>> \o received
           kept == Live(temp.values)
           merged == MergedValues(<<>>, temp)
<1>1. temp.receivedValues \in Seq(Values) /\ temp.values \in Seq(HdrValue)
  BY DEF Header
<1>2. /\ received \in Seq(HdrValue) /\ Len(received) = Len(temp.receivedValues)
      /\ \A i \in 1..Len(temp.receivedValues) : received[i].value = temp.receivedValues[i]
  <2>1. /\ received \in Seq(HdrValue) /\ Len(received) = Len(temp.receivedValues)
        /\ \A i \in 1..Len(temp.receivedValues) :
             received[i] = [value |-> temp.receivedValues[i], state |-> "Received"]
    BY <1>1, AsReceivedType
  <2> HIDE DEF received
  <2>2. ASSUME NEW i \in 1..Len(temp.receivedValues)
        PROVE  received[i].value = temp.receivedValues[i]
    <3>1. received[i] = [value |-> temp.receivedValues[i], state |-> "Received"]
      BY <2>1
    <3> QED BY <3>1
  <2> QED BY <2>1, <2>2
<1>3. base = received
  <2> HIDE DEF received
  <2> QED BY <1>2, ConcatEmptySeq
<1>4. /\ kept \in Seq(HdrValue) /\ Len(kept) = Len(temp.values) - NDeleted(temp.values)
      /\ NDeleted(temp.values) \in 0..Len(temp.values) /\ Len(temp.values) \in Nat
      /\ \A i \in 1..Len(kept) : kept[i].state # "Deleted"
  BY <1>1, LiveElements, LiveIsRest
<1>5. merged = IF Alone(temp.values) THEN kept
               ELSE (IF NDeleted(temp.values) > 0 THEN MarkDeleted(base) ELSE base) \o kept
  BY DEF MergedValues, Alone, AsReceived
<1>6. temp.receivedValues # <<>> \/ kept # <<>>
  <2>1. Len(temp.values) # 0
    BY <1>1, EmptySeq
  <2>2. NDeleted(temp.values) > 0 \/ Len(kept) # 0
    <3> HIDE DEF kept
    <3> QED BY <1>4, <2>1
  <2>3. Len(kept) # 0 => kept # <<>>
    <3>1. Len(<<>>) = 0
      OBVIOUS
    <3> QED BY <3>1
  <2> QED BY <2>2, <2>3
<1>7. WellFormedValues(merged) /\ merged # <<>>
  <2>1. <<>> \in Seq(HdrValue) /\ WellFormedValues(<<>>)
    BY LiveOfNone
  <2> QED BY <1>6, <2>1, MergedValuesWellFormed
<1> HIDE DEF merged, base, kept, received
<1>8. CASE Alone(temp.values)
  <2>1. merged = kept /\ kept # <<>>
    BY <1>5, <1>8 DEF Alone, kept
  <2>2. Live(merged) = kept
    BY <1>4, <1>7, <2>1, AllLive
  <2> QED BY <1>6, <1>7, <2>1, <2>2 DEF merged, kept
<1>9. CASE ~Alone(temp.values) /\ NDeleted(temp.values) > 0
  <2> DEFINE marked == MarkDeleted(received)
  <2>1. merged = marked \o kept
    BY <1>3, <1>5, <1>9
  <2>2. /\ marked \in Seq(HdrValue) /\ Len(marked) = Len(received)
        /\ \A i \in 1..Len(received) :
             marked[i].value = received[i].value /\ marked[i].state = "Deleted"
    BY <1>2, NothingLive
  <2> HIDE DEF marked
  <2>3. Live(merged) = kept
    BY <1>4, <1>7, <2>1, <2>2, LiveBehind
  <2>4. temp.receivedValues # <<>>
    BY <1>9
  <2>5. 1 \in 1..Len(temp.receivedValues)
    <3>1. Len(temp.receivedValues) \in Nat /\ Len(temp.receivedValues) # 0
      BY <1>1, <2>4, EmptySeq, LenProperties
    <3> QED BY <3>1
  <2>6. merged[1] = marked[1]
    <3>1. /\ 1 \in 1..(Len(marked) + Len(kept)) /\ 1 <= Len(marked)
          /\ Len(marked) \in Nat /\ Len(kept) \in Nat
      BY <1>2, <1>4, <2>2, <2>5, LenProperties
    <3> QED BY <1>4, <2>1, <2>2, <3>1, ConcatProperties
  <2>7. marked[1].value = received[1].value
    BY <1>2, <2>2, <2>5
  <2>8. received[1].value = temp.receivedValues[1]
    BY <1>2, <2>5
  <2>9. merged[1].value = temp.receivedValues[1]
    BY <2>6, <2>7, <2>8
  <2> QED BY <1>6, <1>7, <2>3, <2>4, <2>9 DEF merged, kept
<1>10. CASE ~Alone(temp.values) /\ ~(NDeleted(temp.values) > 0)
  <2>1. temp.receivedValues = <<>>
    BY <1>10
  <2>2. Len(temp.receivedValues) = 0
    BY <2>1
  <2>3. received = <<>>
    BY <1>2, <2>2, EmptySeq
  <2>4. <<>> \o kept = kept
    BY <1>4, ConcatEmptySeq
  <2>5. merged = kept
    BY <1>3, <1>5, <1>10, <2>3, <2>4
  <2>6. Live(merged) = kept
    BY <1>4, <1>7, <2>5, AllLive
  <2> QED BY <1>6, <1>7, <2>5, <2>6 DEF merged, kept
<1> QED BY <1>8, <1>9, <1>10

LEMMA MergedInPlace ==
  ASSUME NEW h, Good(h), NEW t, Good(t), NEW n \in Names, n # HdrNameHost, h[n] = NoHeader,
         NEW was, NEW now, NEW from, NEW received, HeldBack(t[n], was, now, from, received),
         NEW state
  PROVE  LET g == MergeTempHeaders(h, t)
         IN  /\ InPlace(g[n], now, from, received, n)
             /\ NoneEmpty(received) /\ NoneEmpty(now) /\ Stated(t[n].values, state) =>
                  Stated(g[n].values, state)
<1> DEFINE g == MergeTempHeaders(h, t)
           T == t[n]
<1>1. /\ h \in HeadersType /\ t \in HeadersType /\ T \in Header /\ T.values \in Seq(HdrValue)
      /\ WellFormedValues(T.values) /\ (n \in Present(t) <=> T.values # <<>>)
  BY GoodHeader DEF Good
<1>2. h[n].values = <<>> /\ h[n].receivedValues = <<>> /\ n \notin Present(h)
  BY DEF NoHeader, Present
<1>3. CASE T.values = <<>>
  <2>1. g[n] = h[n]
    BY <1>1, <1>3 DEF MergeTempHeaders
  <2>2. T.receivedValues = <<>>
    <3>1. NDeleted(<<>>) = 0 /\ Live(<<>>) = <<>>
      BY LiveOfNone
    <3>2. ~(NDeleted(T.values) > 0) /\ ~Alone(T.values)
      BY <1>3, <3>1 DEF Alone
    <3> QED BY <3>2 DEF HeldBack
  <2>3. now = <<>> /\ from = "none" /\ received = <<>>
    BY <1>3, <2>2, LiveOfNone, TextsOfNone DEF HeldBack
  <2>4. InPlace(h[n], now, from, received, n)
    <3> HIDE DEF g
    <3> QED BY <1>2, <2>3, LiveOfNone, TextsOfNone DEF InPlace
  <2>5. Stated(h[n].values, state)
    BY <1>2, LiveOfNone, StatedNothing
  <2> QED BY <2>1, <2>4, <2>5
<1>4. CASE T.values # <<>>
  <2> DEFINE merged == MergedValues(<<>>, T)
  <2>1. /\ NDeleted(T.values) > 0 => T.receivedValues # <<>>
        /\ T.receivedValues # <<>> => NDeleted(T.values) > 0 \/ Alone(T.values)
    BY DEF HeldBack
  <2>2. /\ merged # <<>> /\ Live(merged) = Live(T.values)
        /\ \/ Live(T.values) # <<>> /\ merged[1] = Live(T.values)[1]
           \/ T.receivedValues # <<>> /\ merged[1].value = T.receivedValues[1]
        /\ T.receivedValues # <<>> \/ Live(T.values) # <<>>
    <3> HIDE DEF T
    <3> QED BY <1>1, <1>4, <2>1, MergedIntoNone
  <2>3. g[n].values = merged /\ g[n].receivedValues = <<>> \o T.receivedValues
    BY <1>1, <1>2, <1>4, <2>2 DEF MergeTempHeaders
  <2>4. <<>> \o T.receivedValues = T.receivedValues /\ T.receivedValues \in Seq(Values)
    BY <1>1, ConcatEmptySeq DEF Header
  <2> HIDE DEF merged, g, T
  <2>5. g[n].receivedValues = received
    BY <2>3, <2>4 DEF HeldBack, T
  <2>6. Texts(Live(g[n].values)) = now /\ (from = "none" <=> g[n].values = <<>>)
    BY <1>4, <2>2, <2>3 DEF HeldBack, T
  <2>7. InPlace(g[n], now, from, received, n)
    BY <2>5, <2>6 DEF InPlace
  <2>8. ASSUME Stated(T.values, state), NoneEmpty(received), NoneEmpty(now)
        PROVE  Stated(g[n].values, state)
    <3>1. CASE Live(T.values) # <<>> /\ merged[1] = Live(T.values)[1]
      <4> DEFINE kept == Live(T.values)
      <4>1. kept \in Seq(HdrValue) /\ kept # <<>> /\ Texts(kept) = now
        BY <1>1, <3>1, LiveType DEF HeldBack, T
      <4> HIDE DEF kept
      <4>2. 1 \in 1..Len(kept)
        <5>1. Len(kept) \in Nat /\ Len(kept) # 0
          BY <4>1, EmptySeq, LenProperties
        <5> QED BY <5>1
      <4>3. now \in Seq(Values) /\ Len(now) = Len(kept) /\ now[1] = kept[1].value
        BY <4>1, <4>2, TextsOf
      <4>4. 1 \in DOMAIN now
        BY <4>2, <4>3, LenProperties
      <4>5. merged[1].value # Empty
        BY <2>8, <3>1, <4>3, <4>4 DEF kept, NoneEmpty
      <4> QED BY <2>2, <2>3, <2>8, <4>5 DEF Stated
    <3>2. CASE T.receivedValues # <<>> /\ merged[1].value = T.receivedValues[1]
      <4>1. T.receivedValues = received
        BY <3>2 DEF HeldBack, T
      <4>2. 1 \in DOMAIN T.receivedValues
        <5>1. /\ Len(T.receivedValues) \in Nat /\ Len(T.receivedValues) # 0
              /\ DOMAIN T.receivedValues = 1..Len(T.receivedValues)
          BY <2>4, <3>2, EmptySeq, LenProperties
        <5> QED BY <5>1
      <4>3. merged[1].value # Empty
        BY <2>8, <3>2, <4>1, <4>2 DEF NoneEmpty
      <4> QED BY <2>2, <2>3, <2>8, <4>3 DEF Stated
    <3> QED BY <2>2, <3>1, <3>2
  <2> QED BY <2>7, <2>8 DEF g, T
<1> QED BY <1>3, <1>4

-----------------------------------------------------------------------------
(* The parser's maps and the worker's headers *)

Phases == {"start", "begin", "recv", "core", "vcl", "resp", "vclresp", "ended"}

WorkerTypes ==
  /\ kind \in {"client", "backend"}
  /\ phase \in Phases
  /\ sent \in [Sides -> [Names -> Seq(Used)]]
  /\ live \in [Sides -> [Names -> Seq(Used)]]
  /\ origin \in [Sides -> [Names -> {"none", "first", "again", "received"}]]

\* While headers are received: before the first VCL call.
Receiving == phase \in {"recv", "core"}

\* Where the parser is when the worker is in each of its phases, and what it knows there.
Control ==
  /\ pc = IF phase \in {"start", "ended"} THEN "outer"
          ELSE IF phase = "begin" THEN "begin" ELSE "inner"
  /\ phase \in {"recv", "core", "resp"} => clientHeaders = TRUE
  /\ phase \in {"vcl", "vclresp"} => clientHeaders = FALSE
  /\ ~Receiving => tempHeaders = NoHeaders
  /\ Receiving => \/ lastHeader = "req"
                  \/ lastHeader = "none" /\ \A n \in Names : origin["req"][n] = "none"
  /\ removing # <<>> => phase \in {"vcl", "vclresp"}
  /\ phase \in {"start", "begin", "recv"} => replaced = {}
  /\ phase \in {"start", "begin"} => \A s \in Sides, n \in Names : sent[s][n] = <<>>

\* The header is kept aside until VCL is called.
KeptApart(side, n) == CoreName(side, n) /\ Receiving

\* Nobody has changed the header since it was received.
Fresh(side, n) ==
  IF side = "req"
  THEN phase \in {"start", "begin", "recv"} \/ (phase = "core" /\ ~CoreName(side, n))
  ELSE phase \notin {"vclresp", "ended"}

\* What is shown of a header, and what of it counts as received.
Shown(side, n) == IF removing = <<side, n>> THEN <<>> ELSE live[side][n]

CountsReceived(side, n) ==
  IF CoreName(side, n) /\ n \notin replaced THEN <<>> ELSE sent[side][n]

StateOf(side, n) ==
  IF origin[side][n] = "received" /\ ~CoreName(side, n) THEN "Received"
  ELSE IF origin[side][n] = "again" THEN "Modified" ELSE "Added"

\* The map that holds the header.
Holder(side, n) == IF KeptApart(side, n) THEN tempHeaders ELSE SideMap(tx, side)

Cell(side, n) ==
  /\ KeptApart(side, n) =>
       /\ SideMap(tx, side)[n] = NoHeader
       /\ HeldBack(tempHeaders[n], sent[side][n], live[side][n], origin[side][n],
                   CountsReceived(side, n))
  /\ ~KeptApart(side, n) =>
       /\ InPlace(SideMap(tx, side)[n], Shown(side, n), origin[side][n], CountsReceived(side, n), n)
       /\ side = "req" => tempHeaders[n] = NoHeader
  /\ Empty \notin Used => Stated(Holder(side, n)[n].values, StateOf(side, n))
  /\ Fresh(side, n) =>
       /\ live[side][n] = sent[side][n]
       /\ origin[side][n] = IF sent[side][n] = <<>> THEN "none" ELSE "received"

WorkerInv == WorkerTypes /\ Control /\ \A side \in Sides, n \in Names : Cell(side, n)

\* What nobody touches stays as it is.
LEMMA CellStays ==
  ASSUME NEW side \in Sides, NEW n \in Names, Cell(side, n),
         kind' = kind, KeptApart(side, n)' <=> KeptApart(side, n),
         SideMap(tx', side)[n] = SideMap(tx, side)[n],
         side = "req" => tempHeaders'[n] = tempHeaders[n],
         sent'[side][n] = sent[side][n], live'[side][n] = live[side][n],
         origin'[side][n] = origin[side][n],
         removing' = <<side, n>> <=> removing = <<side, n>>,
         CoreName(side, n) => (n \in replaced' <=> n \in replaced),
         Fresh(side, n)' => Fresh(side, n)
  PROVE  Cell(side, n)'
<1>1. CoreName(side, n)' <=> CoreName(side, n)
  BY DEF CoreName
<1>2. Shown(side, n)' = Shown(side, n)
  BY DEF Shown
<1>3. CountsReceived(side, n)' = CountsReceived(side, n)
  BY <1>1 DEF CountsReceived
<1>4. StateOf(side, n)' = StateOf(side, n)
  BY <1>1 DEF StateOf
<1>5. Holder(side, n)[n]' = Holder(side, n)[n]
  BY DEF Holder, KeptApart, CoreName
<1>6. Used' = Used
  BY DEF Used
<1>7. CASE KeptApart(side, n)
  <2>1. side = "req"
    BY <1>7 DEF KeptApart, CoreName
  <2>2. /\ SideMap(tx', side)[n] = NoHeader
        /\ HeldBack(tempHeaders'[n], sent'[side][n], live'[side][n], origin'[side][n],
                    CountsReceived(side, n)')
    BY <1>3, <1>7, <2>1 DEF Cell
  <2> QED BY <1>4, <1>5, <1>6, <1>7, <2>2 DEF Cell
<1>8. CASE ~KeptApart(side, n)
  BY <1>2, <1>3, <1>4, <1>5, <1>6, <1>8 DEF Cell
<1> QED BY <1>7, <1>8

\* One value of a nested function is replaced.
LEMMA UpdatedAt ==
  ASSUME NEW S, NEW f \in [Sides -> [Names -> S]], NEW side \in Sides, NEW n \in Names,
         NEW x \in S, NEW g, g = [f EXCEPT ![side][n] = x]
  PROVE  /\ g \in [Sides -> [Names -> S]]
         /\ g[side][n] = x
         /\ \A s \in Sides, m \in Names : ~(s = side /\ m = n) => g[s][m] = f[s][m]
BY DEF Sides

\* A header without values, in either place.
LEMMA NothingInPlace ==
  ASSUME NEW n
  PROVE  /\ InPlace(NoHeader, <<>>, "none", <<>>, n)
         /\ NoHeader.values = <<>> /\ \A state : Stated(NoHeader.values, state)
<1>1. NoHeader.values = <<>> /\ NoHeader.receivedValues = <<>>
  BY DEF NoHeader
<1>2. \A state : Stated(NoHeader.values, state)
  BY <1>1, LiveOfNone, StatedNothing
<1> QED BY <1>1, <1>2, LiveOfNone, TextsOfNone DEF InPlace

LEMMA NothingHeldBack ==
  ASSUME NEW header, NEW was, NEW now, NEW received, HeldBack(header, was, now, "none", received)
  PROVE  /\ header.values = <<>> /\ header.receivedValues = <<>>
         /\ now = <<>> /\ received = <<>>
<1>1. header.values = <<>>
  BY DEF HeldBack
<1>2. ~(NDeleted(header.values) > 0) /\ ~Alone(header.values)
  <2>1. ~(0 > 0)
    OBVIOUS
  <2> QED BY <1>1, <2>1, LiveOfNone DEF Alone
<1>3. header.receivedValues = <<>>
  BY <1>2 DEF HeldBack
<1> QED BY <1>1, <1>3, LiveOfNone, TextsOfNone DEF HeldBack

LEMMA NothingHeldBackFits ==
  HeldBack(NoHeader, <<>>, <<>>, "none", <<>>)
<1>1. NoHeader.values = <<>> /\ NoHeader.receivedValues = <<>>
  BY DEF NoHeader
<1>2. ~(NDeleted(NoHeader.values) > 0)
  <2>1. ~(0 > 0)
    OBVIOUS
  <2> QED BY <1>1, <2>1, LiveOfNone
<1>3. Len(<<>>) <= 1
  OBVIOUS
<1> QED BY <1>1, <1>2, <1>3, LiveOfNone, TextsOfNone DEF HeldBack

LEMMA NoHeaderThere ==
  ASSUME NEW h, Good(h), NEW n \in Names, h[n].values = <<>>, h[n].receivedValues = <<>>
  PROVE  h[n] = NoHeader
BY GoodHeader DEF Header, NoHeader

LEMMA SidesGood ==
  ASSUME Inv
  PROVE  Good(tempHeaders) /\ \A side \in Sides : Good(SideMap(tx, side))
BY InvGood DEF Inv, SideMap

\* The worker's first lines: its transaction has no header yet.
LEMMA StartKeeps ==
  ASSUME WorkerInv, LogStart
  PROVE  WorkerInv'
<1>1. /\ pc = "outer" /\ phase = "start" /\ phase' = "begin" /\ removing = <<>>
      /\ kind' = kind /\ removing' = removing /\ sent' = sent /\ live' = live
      /\ origin' = origin /\ replaced' = replaced
  BY DEF WorkerInv, Control, LogStart, Phases
<1>2. /\ pc' = "begin" /\ tx' = NewTransaction(1)
      /\ UNCHANGED <<clientHeaders, lastHeader, tempHeaders>>
  BY <1>1, StartRead DEF LogStart, Log
<1>3. WorkerTypes'
  BY <1>1 DEF WorkerInv, WorkerTypes, Phases, Used
<1>4. Control'
  BY <1>1, <1>2 DEF WorkerInv, Control, Receiving
<1>5. ASSUME NEW side \in Sides, NEW n \in Names
      PROVE  Cell(side, n)'
  <2>1. sent[side][n] = <<>> /\ tempHeaders[n] = NoHeader
    BY <1>1 DEF WorkerInv, Control, Receiving, NoHeaders
  <2>2. live[side][n] = <<>> /\ origin[side][n] = "none"
    BY <1>1, <2>1 DEF WorkerInv, Cell, Fresh
  <2>3. SideMap(tx', side)[n] = NoHeader
    BY <1>2 DEF SideMap, NewTransaction, NoHeaders
  <2>4. ~KeptApart(side, n)'
    BY <1>1 DEF KeptApart, Receiving
  <2>5. Shown(side, n)' = <<>> /\ CountsReceived(side, n)' = <<>>
    BY <1>1, <2>1, <2>2 DEF Shown, CountsReceived
  <2>6. Holder(side, n)[n]' = NoHeader
    BY <2>3, <2>4 DEF Holder
  <2> QED BY <1>1, <1>2, <2>1, <2>2, <2>3, <2>4, <2>5, <2>6, NothingInPlace DEF Cell
<1> QED BY <1>3, <1>4, <1>5 DEF WorkerInv

LEMMA BeginKeeps ==
  ASSUME Inv, WorkerInv, LogBegin
  PROVE  WorkerInv'
<1>1. /\ pc = "begin" /\ phase = "begin" /\ phase' = "recv"
      /\ kind' = kind /\ removing' = removing /\ sent' = sent /\ live' = live
      /\ origin' = origin /\ replaced' = replaced /\ replaced = {}
  BY DEF WorkerInv, Control, LogBegin, Phases
<1>2. /\ pc' = "inner" /\ clientHeaders' = TRUE /\ lastHeader' = "none"
      /\ tempHeaders' = NoHeaders
      /\ \A s \in Sides : SideMap(tx', s) = SideMap(tx, s)
  BY <1>1, BeginRead DEF LogBegin, Log, Inv
<1>3. \A side \in Sides, n \in Names :
        sent[side][n] = <<>> /\ live[side][n] = <<>> /\ origin[side][n] = "none"
  BY <1>1 DEF WorkerInv, Control, Cell, Fresh
<1>4. WorkerTypes'
  BY <1>1 DEF WorkerInv, WorkerTypes, Phases, Used
<1>5. Control'
  <2>1. "req" \in Sides
    BY DEF Sides
  <2> QED BY <1>1, <1>2, <1>3, <2>1 DEF WorkerInv, Control, Receiving
<1>6. ASSUME NEW side \in Sides, NEW n \in Names
      PROVE  Cell(side, n)'
  <2>1. /\ SideMap(tx', side)[n] = SideMap(tx, side)[n]
        /\ tempHeaders'[n] = NoHeader /\ tempHeaders[n] = NoHeader
    BY <1>1, <1>2 DEF WorkerInv, Control, Receiving, NoHeaders
  <2>2. CASE ~CoreName(side, n)
    <3>1. ~KeptApart(side, n) /\ ~KeptApart(side, n)'
      BY <1>1, <2>2 DEF KeptApart, CoreName
    <3>2. Cell(side, n) /\ (Fresh(side, n)' => Fresh(side, n))
      BY <1>1 DEF WorkerInv, Fresh
    <3> QED BY <1>1, <2>1, <3>1, <3>2, CellStays
  <2>3. CASE CoreName(side, n)
    <3>1. KeptApart(side, n)' /\ ~KeptApart(side, n)
      BY <1>1, <2>3 DEF KeptApart, Receiving, CoreName
    <3>2. InPlace(SideMap(tx, side)[n], Shown(side, n), origin[side][n], CountsReceived(side, n), n)
      BY <3>1 DEF WorkerInv, Cell
    <3>3. InPlace(SideMap(tx, side)[n], <<>>, "none", <<>>, n)
      BY <1>1, <1>3, <2>3, <3>2 DEF Shown, CountsReceived
    <3>4. SideMap(tx, side)[n].values = <<>> /\ SideMap(tx, side)[n].receivedValues = <<>>
      BY <3>3 DEF InPlace
    <3>5. SideMap(tx', side)[n] = NoHeader
      BY <2>1, <3>4, SidesGood, NoHeaderThere
    <3>6. HeldBack(tempHeaders'[n], sent'[side][n], live'[side][n], origin'[side][n],
                   CountsReceived(side, n)')
      <4>1. CountsReceived(side, n)' = <<>>
        BY <1>1, <1>3 DEF CountsReceived
      <4> QED BY <1>1, <1>3, <2>1, <4>1, NothingHeldBackFits
    <3>7. Holder(side, n)[n]' = NoHeader
      BY <2>1, <3>1 DEF Holder
    <3> QED BY <1>1, <1>3, <3>1, <3>5, <3>6, <3>7, NothingInPlace DEF Cell
  <2> QED BY <2>2, <2>3
<1> QED BY <1>4, <1>5, <1>6 DEF WorkerInv

\* A status, and the end: the headers stay.
LEMMA StatusKeeps ==
  ASSUME Inv, WorkerInv, ~VCLSetsStatus, LogStatus
  PROVE  WorkerInv'
<1>1. /\ pc = "inner" /\ phase = "vcl" /\ phase' = "resp" /\ removing = <<>>
      /\ kind' = kind /\ removing' = removing /\ sent' = sent /\ live' = live
      /\ origin' = origin /\ replaced' = replaced
  BY DEF WorkerInv, Control, LogStatus
<1>2. /\ pc' = "inner" /\ clientHeaders' = TRUE /\ UNCHANGED <<lastHeader, tempHeaders>>
      /\ \A s \in Sides : SideMap(tx', s) = SideMap(tx, s)
  BY <1>1, StatusRead DEF LogStatus, Log, Inv
<1>3. WorkerTypes'
  BY <1>1 DEF WorkerInv, WorkerTypes, Phases, Used
<1>4. Control'
  BY <1>1, <1>2 DEF WorkerInv, Control, Receiving
<1>5. ASSUME NEW side \in Sides, NEW n \in Names
      PROVE  Cell(side, n)'
  <2>1. ~KeptApart(side, n) /\ ~KeptApart(side, n)'
    BY <1>1 DEF KeptApart, Receiving
  <2>2. Cell(side, n) /\ (Fresh(side, n)' => Fresh(side, n))
    BY <1>1 DEF WorkerInv, Fresh, Sides
  <2> QED BY <1>1, <1>2, <2>1, <2>2, CellStays
<1> QED BY <1>3, <1>4, <1>5 DEF WorkerInv

LEMMA EndKeeps ==
  ASSUME Inv, WorkerInv, LogEnd
  PROVE  WorkerInv'
<1>1. /\ pc = "inner" /\ phase \in {"vcl", "vclresp"} /\ phase' = "ended" /\ removing = <<>>
      /\ kind' = kind /\ removing' = removing /\ sent' = sent /\ live' = live
      /\ origin' = origin /\ replaced' = replaced
  BY DEF WorkerInv, Control, LogEnd
<1>2. /\ pc' = "outer" /\ UNCHANGED <<clientHeaders, lastHeader, tempHeaders>>
      /\ \A s \in Sides : SideMap(tx', s) = SideMap(tx, s)
  BY <1>1, EndRead DEF LogEnd, Log, Inv
<1>3. WorkerTypes'
  BY <1>1 DEF WorkerInv, WorkerTypes, Phases, Used
<1>4. Control'
  BY <1>1, <1>2 DEF WorkerInv, Control, Receiving
<1>5. ASSUME NEW side \in Sides, NEW n \in Names
      PROVE  Cell(side, n)'
  <2>1. ~KeptApart(side, n) /\ ~KeptApart(side, n)'
    BY <1>1 DEF KeptApart, Receiving
  <2>2. Cell(side, n) /\ (Fresh(side, n)' => Fresh(side, n))
    BY <1>1 DEF WorkerInv, Fresh, Sides
  <2> QED BY <1>1, <1>2, <2>1, <2>2, CellStays
<1> QED BY <1>3, <1>4, <1>5 DEF WorkerInv

\* A received header that is kept aside gets its place.
LEMMA CellMerged ==
  ASSUME Inv, WorkerInv, NEW side \in Sides, NEW n \in Names, KeptApart(side, n),
         SideMap(tx', side)[n] = IF lastHeader = "req"
                                 THEN MergeTempHeaders(tx.reqHeaders, tempHeaders)[n]
                                 ELSE NoHeader,
         tempHeaders' = NoHeaders, phase' = "vcl", removing' = <<>>,
         kind' = kind, sent' = sent, live' = live, origin' = origin, replaced' = replaced
  PROVE  Cell(side, n)'
<1> DEFINE T == tempHeaders[n]
           received == CountsReceived(side, n)
           was == sent[side][n]
           now == live[side][n]
           from == origin[side][n]
           g == SideMap(tx', side)[n]
           st == StateOf(side, n)
<1>1. /\ side = "req" /\ CoreName(side, n) /\ n # HdrNameHost /\ Receiving
      /\ CoreName(side, n)'
  BY VarnishModifiedAssumption DEF KeptApart, CoreName
<1>2. /\ SideMap(tx, side)[n] = NoHeader /\ HeldBack(T, was, now, from, received)
      /\ Empty \notin Used => Stated(T.values, st)
  <2>1. Cell(side, n)
    BY DEF WorkerInv
  <2>2. Holder(side, n) = tempHeaders
    BY DEF Holder
  <2> QED BY <2>1, <2>2 DEF Cell
<1>3. Good(tempHeaders) /\ Good(tx.reqHeaders) /\ tx.reqHeaders[n] = NoHeader
  BY <1>1, <1>2, SidesGood DEF SideMap
<1>4. received \in Seq(Used) /\ now \in Seq(Used)
  BY DEF WorkerInv, WorkerTypes, CountsReceived
<1> HIDE DEF T, was, now, from, received, g, st
<1>5. /\ InPlace(g, now, from, received, n)
      /\ Empty \notin Used => Stated(g.values, st)
  <2>1. CASE lastHeader = "req"
    <3> DEFINE h == tx.reqHeaders
               t == tempHeaders
               m == MergeTempHeaders(h, t)
    <3>1. HeldBack(t[n], was, now, from, received) /\ Good(h) /\ Good(t) /\ h[n] = NoHeader
      BY <1>2, <1>3 DEF T
    <3> HIDE DEF h, t
    <3>2. /\ InPlace(m[n], now, from, received, n)
          /\ NoneEmpty(received) /\ NoneEmpty(now) /\ Stated(t[n].values, st) =>
               Stated(m[n].values, st)
      BY <1>1, <3>1, MergedInPlace
    <3>3. ASSUME Empty \notin Used
          PROVE  NoneEmpty(received) /\ NoneEmpty(now)
      BY <1>4, <3>3 DEF NoneEmpty
    <3>4. g = m[n]
      BY <2>1 DEF g, h, t
    <3> HIDE DEF m
    <3> QED BY <1>2, <3>2, <3>3, <3>4 DEF T, t
  <2>2. CASE lastHeader # "req"
    <3>1. from = "none"
      BY <1>1, <2>2 DEF WorkerInv, Control, from
    <3>2. now = <<>> /\ received = <<>>
      BY <1>2, <3>1, NothingHeldBack
    <3>3. g = NoHeader
      BY <2>2 DEF g
    <3> QED BY <3>1, <3>2, <3>3, NothingInPlace
  <2> QED BY <2>1, <2>2
<1>6. ~KeptApart(side, n)' /\ ~Fresh(side, n)'
  BY <1>1 DEF KeptApart, Receiving, Fresh
<1>7. /\ Shown(side, n)' = now /\ origin'[side][n] = from
      /\ CountsReceived(side, n)' = received
      /\ StateOf(side, n)' = st
  BY <1>1 DEF Shown, CountsReceived, StateOf, st, now, from, received
<1>8. Holder(side, n)[n]' = g /\ tempHeaders'[n] = NoHeader /\ Used' = Used
  BY <1>6 DEF Holder, g, NoHeaders, Used
<1> QED BY <1>5, <1>6, <1>7, <1>8 DEF Cell, g

\* VCL is called: the headers that are kept aside are merged the first time.
LEMMA CallKeeps ==
  ASSUME Inv, WorkerInv, CallVCL
  PROVE  WorkerInv'
<1>1. /\ pc = "inner" /\ phase \in {"recv", "core", "vcl", "resp", "vclresp"}
      /\ removing = <<>> /\ removing' = removing
      /\ phase' = IF phase \in {"resp", "vclresp"} THEN "vclresp" ELSE "vcl"
      /\ kind' = kind /\ sent' = sent /\ live' = live
      /\ origin' = origin /\ replaced' = replaced
  BY DEF WorkerInv, Control, CallVCL
<1>2. /\ pc' = "inner" /\ clientHeaders' = FALSE /\ UNCHANGED lastHeader
      /\ ~clientHeaders => tempHeaders' = tempHeaders
      /\ clientHeaders => tempHeaders' = NoHeaders
      /\ \A s \in Sides :
           SideMap(tx', s) = IF clientHeaders /\ lastHeader = s
                             THEN MergeTempHeaders(SideMap(tx, s), tempHeaders)
                             ELSE SideMap(tx, s)
  BY <1>1, CallRead DEF CallVCL, Log, Inv
<1>3. /\ phase \in {"recv", "core", "resp"} => clientHeaders = TRUE
      /\ phase \in {"vcl", "vclresp"} => clientHeaders = FALSE
      /\ ~Receiving => tempHeaders = NoHeaders
      /\ Receiving => lastHeader \in {"req", "none"}
  BY DEF WorkerInv, Control
<1>4. tempHeaders' = NoHeaders
  BY <1>1, <1>2, <1>3 DEF Receiving
<1>5. WorkerTypes'
  BY <1>1 DEF WorkerInv, WorkerTypes, Phases, Used
<1>6. Control'
  BY <1>1, <1>2, <1>4 DEF WorkerInv, Control, Receiving
<1>7. ASSUME NEW side \in Sides, NEW n \in Names
      PROVE  Cell(side, n)'
  <2>1. Cell(side, n)
    BY DEF WorkerInv
  <2>2. ~KeptApart(side, n)'
    BY <1>1 DEF KeptApart, Receiving
  <2>3. CASE KeptApart(side, n)
    <3>1. Receiving /\ side = "req" /\ SideMap(tx, side)[n] = NoHeader
      BY <2>1, <2>3 DEF KeptApart, CoreName, Cell
    <3>2. SideMap(tx', side)[n] = IF lastHeader = "req"
                                  THEN MergeTempHeaders(tx.reqHeaders, tempHeaders)[n]
                                  ELSE NoHeader
      BY <1>2, <1>3, <3>1 DEF Receiving, SideMap
    <3>3. phase' = "vcl" /\ removing' = <<>>
      BY <1>1, <3>1 DEF Receiving
    <3> QED BY <1>1, <1>4, <2>3, <3>2, <3>3, CellMerged
  <2>4. CASE ~KeptApart(side, n)
    <3>1. side = "req" => tempHeaders[n] = NoHeader /\ tempHeaders'[n] = NoHeader
      BY <1>4, <2>1, <2>4 DEF Cell, NoHeaders
    <3>2. SideMap(tx', side)[n] = SideMap(tx, side)[n]
      <4>1. CASE ~clientHeaders \/ lastHeader # side
        BY <1>2, <4>1
      <4>2. CASE clientHeaders /\ lastHeader = side
        <5>1. SideMap(tx', side) = MergeTempHeaders(SideMap(tx, side), tempHeaders)
          BY <1>2, <4>2
        <5>2. tempHeaders[n] = NoHeader
          <6>1. CASE Receiving
            BY <1>3, <3>1, <4>2, <6>1 DEF Sides
          <6>2. CASE ~Receiving
            BY <1>3, <6>2 DEF NoHeaders
          <6> QED BY <6>1, <6>2
        <5>3. SideMap(tx, side) \in HeadersType
          BY SidesGood DEF Good
        <5> QED BY <5>1, <5>2, <5>3, MergeElsewhere
      <4> QED BY <4>1, <4>2
    <3>3. Fresh(side, n)' => Fresh(side, n)
      BY <1>1 DEF Fresh
    <3> QED BY <1>1, <2>1, <2>2, <2>4, <3>1, <3>2, <3>3, CellStays
  <2> QED BY <2>3, <2>4
<1> QED BY <1>5, <1>6, <1>7 DEF WorkerInv

\* A line about one header leaves the others alone.
LEMMA OthersStay ==
  ASSUME WorkerInv, NEW side \in Sides, NEW n \in Names,
         kind' = kind, Receiving' <=> Receiving,
         \A s \in Sides : s # side => SideMap(tx', s) = SideMap(tx, s),
         Elsewhere(SideMap(tx', side), SideMap(tx, side), n),
         Elsewhere(tempHeaders', tempHeaders, n),
         side = "resp" => tempHeaders' = tempHeaders,
         NEW s \in Sides, NEW m \in Names, ~(s = side /\ m = n),
         sent'[s][m] = sent[s][m], live'[s][m] = live[s][m], origin'[s][m] = origin[s][m],
         removing' = <<s, m>> <=> removing = <<s, m>>,
         CoreName(s, m) => (m \in replaced' <=> m \in replaced),
         Fresh(s, m)' => Fresh(s, m)
  PROVE  Cell(s, m)'
<1>1. Cell(s, m)
  BY DEF WorkerInv
<1>2. SideMap(tx', s)[m] = SideMap(tx, s)[m]
  BY DEF Elsewhere
<1>3. s = "req" => tempHeaders'[m] = tempHeaders[m]
  BY DEF Elsewhere, Sides
<1>4. KeptApart(s, m)' <=> KeptApart(s, m)
  BY DEF KeptApart, CoreName
<1> QED BY <1>1, <1>2, <1>3, <1>4, CellStays

\* A header is received: as received in the map of its side, or as added aside.
LEMMA ReceivedCell ==
  ASSUME Inv, WorkerInv, NEW side \in Sides, NEW n \in Names, NEW v \in Used,
         kind' = kind, phase' = phase, removing = <<>>, removing' = removing,
         replaced' = replaced, Fresh(side, n),
         n = HdrNameHost => sent[side][n] = <<>>,
         KeptApart(side, n) => sent[side][n] = <<>> /\ n \notin replaced,
         CoreName(side, n) => KeptApart(side, n),
         KeptApart(side, n) =>
           /\ SideMap(tx', side) = SideMap(tx, side)
           /\ tempHeaders' = AddProcessedHeaders(tempHeaders, n, v),
         ~KeptApart(side, n) =>
           /\ tempHeaders' = tempHeaders
           /\ SideMap(tx', side) = Add(SideMap(tx, side), n, v, "Received"),
         sent'[side][n] = Append(sent[side][n], v), live'[side][n] = Append(live[side][n], v),
         origin'[side][n] = "received"
  PROVE  /\ Cell(side, n)'
         /\ Elsewhere(SideMap(tx', side), SideMap(tx, side), n)
         /\ Elsewhere(tempHeaders', tempHeaders, n)
<1>1. /\ v \in Values /\ Good(tempHeaders) /\ Good(SideMap(tx, side))
      /\ (Empty \notin Used => v # Empty) /\ Used' = Used
  BY UsedAreValues, SidesGood DEF WorkerInv, WorkerTypes, Used
<1>2. /\ Cell(side, n) /\ live[side][n] = sent[side][n]
      /\ origin[side][n] = IF sent[side][n] = <<>> THEN "none" ELSE "received"
  BY DEF WorkerInv, Cell
<1>3. /\ CoreName(side, n)' <=> CoreName(side, n)
      /\ KeptApart(side, n)' <=> KeptApart(side, n)
  BY DEF CoreName, KeptApart, Receiving
<1>4. live'[side][n] = sent'[side][n] /\ sent'[side][n] # <<>>
  <2>1. sent[side][n] \in Seq(Used)
    BY DEF WorkerInv, WorkerTypes
  <2> DEFINE q == sent[side][n]
  <2>2. Append(q, v) # <<>>
    <3> HIDE DEF q
    <3> QED BY <2>1, FirstOfLonger DEF q
  <2> QED BY <1>2, <2>2
<1>5. CASE KeptApart(side, n)
  <2>1. /\ side = "req" /\ CoreName(side, n) /\ n # HdrNameHost
        /\ sent[side][n] = <<>> /\ n \notin replaced
    BY <1>5, VarnishModifiedAssumption DEF KeptApart, CoreName
  <2>2. /\ SideMap(tx, side)[n] = NoHeader
        /\ HeldBack(tempHeaders[n], <<>>, <<>>, "none", CountsReceived(side, n))
    BY <1>2, <1>5, <2>1 DEF Cell
  <2>3. tempHeaders[n].values = <<>> /\ tempHeaders[n].receivedValues = <<>>
    BY <2>2, NothingHeldBack
  <2> DEFINE g == AddProcessedHeaders(tempHeaders, n, v)
  <2>4. /\ Elsewhere(g, tempHeaders, n)
        /\ HeldBack(g[n], <<v>>, <<v>>, "received", <<>>)
        /\ v # Empty => Stated(g[n].values, "Added")
    BY <1>1, <2>1, <2>3, ReceivedAside
  <2> HIDE DEF g
  <2>5. tempHeaders' = g
    BY <1>5 DEF g
  <2>6. sent'[side][n] = <<v>> /\ live'[side][n] = <<v>>
    BY <1>2, <2>1
  <2>7. /\ CountsReceived(side, n)' = <<>> /\ StateOf(side, n)' = "Added"
        /\ Holder(side, n)' = tempHeaders'
    BY <1>3, <1>5, <2>1 DEF CountsReceived, StateOf, Holder
  <2>8. Cell(side, n)'
    <3>1. HeldBack(tempHeaders'[n], sent'[side][n], live'[side][n], origin'[side][n],
                   CountsReceived(side, n)')
      BY <2>4, <2>5, <2>6, <2>7
    <3>2. Empty \notin Used' => Stated(Holder(side, n)[n].values', StateOf(side, n)')
      BY <1>1, <2>4, <2>5, <2>7
    <3>3. SideMap(tx', side)[n] = NoHeader
      BY <1>5, <2>2
    <3> QED BY <1>3, <1>4, <1>5, <3>1, <3>2, <3>3 DEF Cell
  <2> QED BY <1>5, <2>4, <2>5, <2>8 DEF Elsewhere
<1>6. CASE ~KeptApart(side, n)
  <2> DEFINE h == SideMap(tx, side)
             was == sent[side][n]
             from == origin[side][n]
             g == Add(h, n, v, "Received")
  <2>1. ~CoreName(side, n)
    BY <1>6
  <2>2. InPlace(h[n], was, from, was, n)
    BY <1>2, <1>6, <2>1 DEF Cell, Shown, CountsReceived
  <2>3. n = HdrNameHost => from = "none"
    BY <1>2
  <2>4. Empty \notin Used => Stated(h[n].values, "Received")
    <3>1. CASE from = "none"
      <4>1. h[n].values = <<>>
        BY <2>2, <3>1 DEF InPlace
      <4> QED BY <4>1, LiveOfNone, StatedNothing
    <3>2. CASE from # "none"
      <4>1. StateOf(side, n) = "Received" /\ Holder(side, n) = h
        BY <1>2, <1>6, <2>1, <3>2 DEF StateOf, Holder
      <4> QED BY <1>2, <4>1 DEF Cell
    <3> QED BY <3>1, <3>2
  <2>5. Good(h)
    BY <1>1
  <2> HIDE DEF h, was, from, g
  <2>6. /\ Elsewhere(g, h, n)
        /\ InPlace(g[n], Append(was, v), "received", Append(was, v), n)
        /\ v # Empty /\ Stated(h[n].values, "Received") => Stated(g[n].values, "Received")
    BY <1>1, <2>2, <2>3, <2>5, ReceivedInPlace DEF g
  <2>7. SideMap(tx', side) = g /\ tempHeaders' = tempHeaders
    BY <1>6 DEF g, h
  <2>8. /\ Shown(side, n)' = Append(was, v) /\ CountsReceived(side, n)' = Append(was, v)
        /\ StateOf(side, n)' = "Received" /\ Holder(side, n)' = g
    BY <1>2, <1>3, <1>6, <2>1, <2>7 DEF Shown, CountsReceived, StateOf, Holder, was
  <2>9. Cell(side, n)'
    <3>1. InPlace(SideMap(tx', side)[n], Shown(side, n)', origin'[side][n],
                  CountsReceived(side, n)', n)
      BY <2>6, <2>7, <2>8
    <3>2. Empty \notin Used' => Stated(Holder(side, n)[n].values', StateOf(side, n)')
      BY <1>1, <2>4, <2>6, <2>8
    <3>3. side = "req" => tempHeaders'[n] = NoHeader
      BY <1>2, <1>6, <2>7 DEF Cell
    <3> QED BY <1>3, <1>4, <1>6, <3>1, <3>2, <3>3 DEF Cell
  <2> QED BY <2>6, <2>7, <2>9 DEF h, Elsewhere
<1> QED BY <1>5, <1>6

LEMMA ReceiveKeeps ==
  ASSUME Inv, WorkerInv, ~RepeatedCoreNames,
         NEW side \in Sides, NEW n \in Names, NEW v \in ReceivedValues, Receive(side, n, v)
  PROVE  WorkerInv'
<1> DEFINE line == HeaderLine(side, n, v)
<1>1. /\ pc = "inner" /\ phase = (IF side = "req" THEN "recv" ELSE "resp") /\ phase' = phase
      /\ removing = <<>> /\ clientHeaders = TRUE /\ v \in Used
      /\ removing' = removing /\ replaced' = replaced /\ kind' = kind
      /\ phase = "recv" => replaced = {}
  BY DEF WorkerInv, Control, Receive, Used
<1>2. /\ sent' = [sent EXCEPT ![side][n] = Append(sent[side][n], v)]
      /\ live' = [live EXCEPT ![side][n] = Append(live[side][n], v)]
      /\ origin' = [origin EXCEPT ![side][n] = "received"]
      /\ sent[side][n] # <<>> => n # HdrNameHost /\ ~CoreName(side, n)
      /\ ReadLine(line)
  BY DEF Receive, Log, HeaderLine
<1>3. /\ pc' = "inner" /\ UNCHANGED clientHeaders /\ lastHeader' = side
      /\ \A s \in Sides : s # side => SideMap(tx', s) = SideMap(tx, s)
      /\ CoreName(side, n) =>
           /\ SideMap(tx', side) = SideMap(tx, side)
           /\ tempHeaders' = AddProcessedHeaders(tempHeaders, n, v)
      /\ ~CoreName(side, n) =>
           /\ tempHeaders' = tempHeaders
           /\ SideMap(tx', side) = Add(SideMap(tx, side), n, v, "Received")
  BY <1>1, <1>2, HeaderRead DEF Inv, WorkerInv, WorkerTypes
<1>4. /\ KeptApart(side, n) <=> CoreName(side, n)
      /\ Fresh(side, n) /\ (CoreName(side, n) => side = "req")
  BY <1>1 DEF KeptApart, CoreName, Receiving, Fresh
<1> HIDE DEF line
<1>5. /\ live \in [Sides -> [Names -> Seq(Used)]] /\ sent \in [Sides -> [Names -> Seq(Used)]]
      /\ origin \in [Sides -> [Names -> {"none", "first", "again", "received"}]]
      /\ Append(sent[side][n], v) \in Seq(Used) /\ Append(live[side][n], v) \in Seq(Used)
  BY <1>1 DEF WorkerInv, WorkerTypes
<1>6. /\ sent' \in [Sides -> [Names -> Seq(Used)]] /\ sent'[side][n] = Append(sent[side][n], v)
      /\ \A s \in Sides, m \in Names : ~(s = side /\ m = n) => sent'[s][m] = sent[s][m]
  BY <1>2, <1>5, UpdatedAt
<1>7. /\ live' \in [Sides -> [Names -> Seq(Used)]] /\ live'[side][n] = Append(live[side][n], v)
      /\ \A s \in Sides, m \in Names : ~(s = side /\ m = n) => live'[s][m] = live[s][m]
  BY <1>2, <1>5, UpdatedAt
<1>8. /\ origin' \in [Sides -> [Names -> {"none", "first", "again", "received"}]]
      /\ origin'[side][n] = "received"
      /\ \A s \in Sides, m \in Names : ~(s = side /\ m = n) => origin'[s][m] = origin[s][m]
  <2> DEFINE O == {"none", "first", "again", "received"}
  <2>1. "received" \in O
    OBVIOUS
  <2> HIDE DEF O
  <2>2. origin \in [Sides -> [Names -> O]]
    BY <1>5 DEF O
  <2>3. /\ origin' \in [Sides -> [Names -> O]] /\ origin'[side][n] = "received"
        /\ \A s \in Sides, m \in Names : ~(s = side /\ m = n) => origin'[s][m] = origin[s][m]
    BY <1>2, <2>1, <2>2, UpdatedAt
  <2> QED BY <2>3 DEF O
<1>9. WorkerTypes'
  BY <1>1, <1>6, <1>7, <1>8 DEF WorkerInv, WorkerTypes, Used
<1>10. Control'
  <2>1. ~Receiving' => tempHeaders' = NoHeaders
    BY <1>1, <1>3, <1>4 DEF WorkerInv, Control, Receiving
  <2>2. Receiving' => lastHeader' = "req"
    BY <1>1, <1>3 DEF Receiving
  <2> QED BY <1>1, <1>3, <2>1, <2>2 DEF WorkerInv, Control
<1>11. /\ Cell(side, n)'
       /\ Elsewhere(SideMap(tx', side), SideMap(tx, side), n)
       /\ Elsewhere(tempHeaders', tempHeaders, n)
  <2>1. /\ n = HdrNameHost => sent[side][n] = <<>>
        /\ KeptApart(side, n) => sent[side][n] = <<>> /\ n \notin replaced
    BY <1>1, <1>2, <1>4
  <2> QED BY <1>1, <1>3, <1>4, <1>6, <1>7, <1>8, <2>1, ReceivedCell
<1>12. ASSUME NEW s \in Sides, NEW m \in Names, ~(s = side /\ m = n)
       PROVE  Cell(s, m)'
  <2>1. /\ Receiving' <=> Receiving
        /\ Fresh(s, m)' => Fresh(s, m)
    BY <1>1 DEF Receiving, Fresh, CoreName
  <2>2. side = "resp" => tempHeaders' = tempHeaders
    BY <1>3, <1>4
  <2>3. /\ sent'[s][m] = sent[s][m] /\ live'[s][m] = live[s][m]
        /\ origin'[s][m] = origin[s][m]
    BY <1>6, <1>7, <1>8, <1>12
  <2>4. /\ removing' = <<s, m>> <=> removing = <<s, m>>
        /\ m \in replaced' <=> m \in replaced
        /\ kind' = kind
    BY <1>1
  <2>5. \A r \in Sides : r # side => SideMap(tx', r) = SideMap(tx, r)
    BY <1>3
  <2> QED BY <1>11, <1>12, <2>1, <2>2, <2>3, <2>4, <2>5, OthersStay
<1> QED BY <1>9, <1>10, <1>11, <1>12 DEF WorkerInv

\* A header that is not in the map cannot be deleted from it (header.go, 163-180).
LEMMA DeleteNothing ==
  ASSUME NEW h \in HeadersType, NEW n \in Names, h[n] = NoHeader
  PROVE  Delete(h, n) = h
<1>1. CanonicalHeaderName[n] = n
  BY SpellingsAssumption
<1>2. MarkDeleted(<<>>) = <<>>
  BY DEF MarkDeleted
<1>3. h[n].values = <<>>
  BY DEF NoHeader
<1>4. Delete(h, n) = [h EXCEPT ![n] = [h[n] EXCEPT !.values = <<>>]]
  BY <1>1, <1>2, <1>3 DEF Delete
<1>5. [h[n] EXCEPT !.values = <<>>] = h[n]
  BY DEF NoHeader
<1> QED BY <1>4, <1>5 DEF HeadersType

\* The first value of a header Varnish has.
LEMMA HeadIsUsed ==
  ASSUME WorkerTypes, NEW side \in Sides, NEW n \in Names, live[side][n] # <<>>
  PROVE  Head(live[side][n]) \in Used /\ Tail(live[side][n]) \in Seq(Used)
<1>1. live[side][n] \in Seq(Used)
  BY DEF WorkerTypes
<1> QED BY <1>1, HeadTailProperties

\* VCL removes a value: the first time its line deletes the header, and then nothing is left
\* of it to be deleted.
LEMMA VCLUnsetKeeps ==
  ASSUME Inv, WorkerInv, NEW side \in Sides, NEW n \in Names, VCLUnset(side, n)
  PROVE  WorkerInv'
<1> DEFINE v == Head(live[side][n])
           line == UnsetLine(side, n, v)
           h == SideMap(tx, side)
           g == Delete(h, n)
<1>1. /\ pc = "inner" /\ phase' = phase /\ phase \in {"vcl", "vclresp"} /\ InVCL(side)
      /\ clientHeaders = FALSE /\ tempHeaders = NoHeaders
      /\ removing \in {<<>>, <<side, n>>} /\ live[side][n] # <<>>
      /\ removing' = (IF Tail(live[side][n]) = <<>> THEN <<>> ELSE <<side, n>>)
      /\ replaced' = replaced /\ kind' = kind /\ sent' = sent /\ origin' = origin
  BY DEF WorkerInv, Control, VCLUnset, InVCL, RemoveValue, Receiving
<1>2. live' = [live EXCEPT ![side][n] = Tail(live[side][n])] /\ ReadLine(line)
  BY DEF VCLUnset, RemoveValue, Log, UnsetLine
<1>3. v \in Used /\ Tail(live[side][n]) \in Seq(Used)
  BY <1>1, HeadIsUsed DEF WorkerInv
<1> HIDE DEF v
<1>4. /\ pc' = "inner" /\ UNCHANGED <<clientHeaders, lastHeader>>
      /\ \A s \in Sides : s # side => SideMap(tx', s) = SideMap(tx, s)
      /\ SideMap(tx', side) = g
      /\ tempHeaders' = Delete(tempHeaders, n)
  BY <1>1, <1>2, <1>3, UnsetRead DEF Inv, WorkerInv, WorkerTypes
<1>5. tempHeaders' = NoHeaders
  BY <1>1, <1>4, DeleteNothing, SidesGood DEF NoHeaders, Good
<1>6. live \in [Sides -> [Names -> Seq(Used)]]
  BY DEF WorkerInv, WorkerTypes
<1> HIDE DEF line
<1>7. /\ live' \in [Sides -> [Names -> Seq(Used)]] /\ live'[side][n] = Tail(live[side][n])
      /\ \A s \in Sides, m \in Names : ~(s = side /\ m = n) => live'[s][m] = live[s][m]
  BY <1>2, <1>3, <1>6, UpdatedAt
<1>8. WorkerTypes'
  BY <1>1, <1>7 DEF WorkerInv, WorkerTypes, Used
<1>9. Control'
  BY <1>1, <1>4, <1>5 DEF WorkerInv, Control, Receiving
<1>10. Cell(side, n) /\ ~KeptApart(side, n) /\ ~KeptApart(side, n)' /\ ~Fresh(side, n)'
  BY <1>1 DEF WorkerInv, KeptApart, Receiving, Fresh, InVCL, Sides
<1>11. Good(h) /\ InPlace(h[n], Shown(side, n), origin[side][n], CountsReceived(side, n), n)
  BY <1>10, SidesGood DEF Cell
<1>12. /\ Elsewhere(g, h, n)
       /\ InPlace(g[n], <<>>, origin[side][n], CountsReceived(side, n), n)
       /\ (h[n].values # <<>> => h[n].values[1].value # Empty) =>
            \A state : Stated(g[n].values, state)
  BY <1>11, UnsetInPlace
<1>13. Empty \notin Used => (h[n].values # <<>> => h[n].values[1].value # Empty)
  BY <1>10 DEF Cell, Holder, Stated
<1> HIDE DEF h, g
<1>14. Cell(side, n)'
  <2>1. Shown(side, n)' = <<>>
    BY <1>1, <1>7 DEF Shown
  <2>2. CountsReceived(side, n)' = CountsReceived(side, n) /\ origin'[side][n] = origin[side][n]
    BY <1>1 DEF CountsReceived, CoreName
  <2>3. Holder(side, n)' = g /\ Used' = Used
    BY <1>4, <1>10 DEF Holder, Used
  <2>4. InPlace(SideMap(tx', side)[n], Shown(side, n)', origin'[side][n],
                CountsReceived(side, n)', n)
    BY <1>4, <1>12, <2>1, <2>2
  <2>5. Empty \notin Used' => Stated(Holder(side, n)[n].values', StateOf(side, n)')
    BY <1>12, <1>13, <2>3
  <2>6. tempHeaders'[n] = NoHeader
    BY <1>5 DEF NoHeaders
  <2> QED BY <1>10, <2>4, <2>5, <2>6 DEF Cell
<1>15. ASSUME NEW s \in Sides, NEW m \in Names, ~(s = side /\ m = n)
       PROVE  Cell(s, m)'
  <2>1. /\ Receiving' <=> Receiving
        /\ Fresh(s, m)' => Fresh(s, m)
    BY <1>1 DEF Receiving, Fresh, CoreName
  <2>2. /\ side = "resp" => tempHeaders' = tempHeaders
        /\ Elsewhere(tempHeaders', tempHeaders, n)
    BY <1>1, <1>5 DEF Elsewhere
  <2>3. /\ sent'[s][m] = sent[s][m] /\ live'[s][m] = live[s][m]
        /\ origin'[s][m] = origin[s][m]
    BY <1>1, <1>7, <1>15
  <2>4. removing # <<s, m>> /\ removing' # <<s, m>>
    <3>1. <<side, n>> # <<s, m>>
      BY <1>15
    <3>2. <<>> # <<s, m>>
      OBVIOUS
    <3>3. removing' = <<>> \/ removing' = <<side, n>>
      BY <1>1
    <3>4. removing = <<>> \/ removing = <<side, n>>
      BY <1>1
    <3> QED BY <3>1, <3>2, <3>3, <3>4
  <2>5. (m \in replaced' <=> m \in replaced) /\ kind' = kind
    BY <1>1
  <2>6. /\ \A r \in Sides : r # side => SideMap(tx', r) = SideMap(tx, r)
        /\ Elsewhere(SideMap(tx', side), SideMap(tx, side), n)
    BY <1>4, <1>12 DEF h
  <2> QED BY <1>15, <2>1, <2>2, <2>3, <2>4, <2>5, <2>6, OthersStay
<1> QED BY <1>8, <1>9, <1>14, <1>15 DEF WorkerInv

\* What a set of a header makes of the worker's own.
LEMMA SetValueTypes ==
  ASSUME WorkerTypes, NEW side \in Sides, NEW n \in Names, NEW v \in SetValues,
         SetValue(side, n, v)
  PROVE  /\ v \in Used /\ live[side][n] = <<>> /\ removing = <<>>
         /\ kind' = kind /\ removing' = removing /\ sent' = sent
         /\ ReadLine(HeaderLine(side, n, v))
         /\ live' \in [Sides -> [Names -> Seq(Used)]] /\ live'[side][n] = <<v>>
         /\ origin' \in [Sides -> [Names -> {"none", "first", "again", "received"}]]
         /\ origin'[side][n] = IF origin[side][n] = "none" THEN "first" ELSE "again"
         /\ \A s \in Sides, m \in Names : ~(s = side /\ m = n) =>
              live'[s][m] = live[s][m] /\ origin'[s][m] = origin[s][m]
<1> DEFINE next == IF origin[side][n] = "none" THEN "first" ELSE "again"
           O == {"none", "first", "again", "received"}
<1>1. /\ v \in Used /\ live[side][n] = <<>> /\ removing = <<>>
      /\ kind' = kind /\ removing' = removing /\ sent' = sent
      /\ ReadLine(HeaderLine(side, n, v))
      /\ live' = [live EXCEPT ![side][n] = <<v>>]
      /\ origin' = [origin EXCEPT ![side][n] = next]
  BY DEF SetValue, Log, HeaderLine, Used
<1>2. next \in O /\ origin \in [Sides -> [Names -> O]]
  BY DEF WorkerTypes
<1>3. live \in [Sides -> [Names -> Seq(Used)]] /\ <<v>> \in Seq(Used)
  BY <1>1 DEF WorkerTypes
<1> HIDE DEF O, next
<1>4. /\ live' \in [Sides -> [Names -> Seq(Used)]] /\ live'[side][n] = <<v>>
      /\ \A s \in Sides, m \in Names : ~(s = side /\ m = n) => live'[s][m] = live[s][m]
  BY <1>1, <1>3, UpdatedAt
<1>5. /\ origin' \in [Sides -> [Names -> O]] /\ origin'[side][n] = next
      /\ \A s \in Sides, m \in Names : ~(s = side /\ m = n) => origin'[s][m] = origin[s][m]
  BY <1>1, <1>2, UpdatedAt
<1> QED BY <1>1, <1>4, <1>5 DEF O, next

\* VCL sets a header: it shows that value, added or modified.
LEMMA VCLSetKeeps ==
  ASSUME Inv, WorkerInv, NEW side \in Sides, NEW n \in Names, NEW v \in SetValues,
         VCLSet(side, n, v)
  PROVE  WorkerInv'
<1> DEFINE h == SideMap(tx, side)
           g == AddProcessedHeaders(h, n, v)
           from == origin[side][n]
           next == IF from = "none" THEN "first" ELSE "again"
           st == IF from = "none" THEN "Added" ELSE "Modified"
<1>1. /\ pc = "inner" /\ phase' = phase /\ phase \in {"vcl", "vclresp"} /\ InVCL(side)
      /\ clientHeaders = FALSE /\ tempHeaders = NoHeaders /\ replaced' = replaced
  BY DEF WorkerInv, Control, VCLSet, InVCL, Receiving
<1>2. /\ v \in Used /\ live[side][n] = <<>> /\ removing = <<>>
      /\ kind' = kind /\ removing' = removing /\ sent' = sent
      /\ ReadLine(HeaderLine(side, n, v))
      /\ live' \in [Sides -> [Names -> Seq(Used)]] /\ live'[side][n] = <<v>>
      /\ origin' \in [Sides -> [Names -> {"none", "first", "again", "received"}]]
      /\ origin'[side][n] = next
      /\ \A s \in Sides, m \in Names : ~(s = side /\ m = n) =>
           live'[s][m] = live[s][m] /\ origin'[s][m] = origin[s][m]
  BY SetValueTypes DEF VCLSet, WorkerInv
<1>3. /\ pc' = "inner" /\ UNCHANGED clientHeaders /\ lastHeader' = side
      /\ \A s \in Sides : s # side => SideMap(tx', s) = SideMap(tx, s)
      /\ tempHeaders' = tempHeaders
      /\ SideMap(tx', side) = g
  BY <1>1, <1>2, HeaderRead DEF Inv, WorkerInv, WorkerTypes
<1>4. WorkerTypes'
  BY <1>1, <1>2 DEF WorkerInv, WorkerTypes, Used
<1>5. Control'
  BY <1>1, <1>2, <1>3 DEF WorkerInv, Control, Receiving
<1>6. Cell(side, n) /\ ~KeptApart(side, n) /\ ~KeptApart(side, n)' /\ ~Fresh(side, n)'
  BY <1>1 DEF WorkerInv, KeptApart, Receiving, Fresh, InVCL, Sides
<1>7. Good(h) /\ InPlace(h[n], <<>>, from, CountsReceived(side, n), n) /\ v \in Values
  <2>1. Shown(side, n) = <<>>
    BY <1>2 DEF Shown
  <2> QED BY <1>2, <1>6, <2>1, SidesGood, UsedAreValues DEF Cell, WorkerInv, WorkerTypes
<1>8. Empty \notin Used => v # Empty /\ (h[n].values # <<>> => h[n].values[1].value # Empty)
  BY <1>2, <1>6 DEF Cell, Holder, Stated
<1> HIDE DEF h, g, from, next, st
<1>9. /\ Elsewhere(g, h, n)
      /\ InPlace(g[n], <<v>>, next, CountsReceived(side, n), n)
      /\ v # Empty /\ (h[n].values # <<>> => h[n].values[1].value # Empty) =>
           Stated(g[n].values, st)
  BY <1>7, SetInPlace DEF g, next, st
<1>10. Cell(side, n)'
  <2>1. Shown(side, n)' = <<v>>
    <3>1. removing' # <<side, n>>
      BY <1>2
    <3> QED BY <1>2, <3>1 DEF Shown
  <2>2. CountsReceived(side, n)' = CountsReceived(side, n)
    BY <1>1, <1>2 DEF CountsReceived, CoreName
  <2>3. Holder(side, n)' = g /\ Used' = Used
    BY <1>3, <1>6 DEF Holder, Used
  <2>4. StateOf(side, n)' = st
    BY <1>2 DEF StateOf, next, st
  <2>5. InPlace(SideMap(tx', side)[n], Shown(side, n)', origin'[side][n],
                CountsReceived(side, n)', n)
    BY <1>2, <1>3, <1>9, <2>1, <2>2
  <2>6. Empty \notin Used' => Stated(Holder(side, n)[n].values', StateOf(side, n)')
    BY <1>8, <1>9, <2>3, <2>4
  <2>7. tempHeaders'[n] = NoHeader
    BY <1>1, <1>3 DEF NoHeaders
  <2> QED BY <1>6, <2>5, <2>6, <2>7 DEF Cell
<1>11. ASSUME NEW s \in Sides, NEW m \in Names, ~(s = side /\ m = n)
       PROVE  Cell(s, m)'
  <2>1. /\ Receiving' <=> Receiving
        /\ Fresh(s, m)' => Fresh(s, m)
    BY <1>1, <1>2 DEF Receiving, Fresh, CoreName
  <2>2. /\ side = "resp" => tempHeaders' = tempHeaders
        /\ Elsewhere(tempHeaders', tempHeaders, n)
    BY <1>3 DEF Elsewhere
  <2>3. /\ sent'[s][m] = sent[s][m] /\ live'[s][m] = live[s][m]
        /\ origin'[s][m] = origin[s][m]
    BY <1>2, <1>11
  <2>4. /\ removing' = <<s, m>> <=> removing = <<s, m>>
        /\ m \in replaced' <=> m \in replaced
        /\ kind' = kind
    BY <1>1, <1>2
  <2>5. /\ \A r \in Sides : r # side => SideMap(tx', r) = SideMap(tx, r)
        /\ Elsewhere(SideMap(tx', side), SideMap(tx, side), n)
    BY <1>3, <1>9 DEF h
  <2> QED BY <1>11, <2>1, <2>2, <2>3, <2>4, <2>5, OthersStay
<1> QED BY <1>4, <1>5, <1>10, <1>11 DEF WorkerInv

\* Varnish itself sets a header: it is the only live value aside.
LEMMA CoreSetKeeps ==
  ASSUME Inv, WorkerInv, NEW n \in Names, NEW v \in SetValues, CoreSet(n, v)
  PROVE  WorkerInv'
<1> DEFINE side == "req"
           t == tempHeaders
           g == AddProcessedHeaders(t, n, v)
           was == sent[side][n]
           from == origin[side][n]
           next == IF from = "none" THEN "first" ELSE "again"
           st == IF from = "none" THEN "Added" ELSE "Modified"
<1>1. /\ pc = "inner" /\ phase \in {"recv", "core"} /\ phase' = "core"
      /\ clientHeaders = TRUE /\ replaced' = replaced /\ Receiving
      /\ CoreName(side, n) /\ n # HdrNameHost /\ side \in Sides
  BY VarnishModifiedAssumption DEF WorkerInv, Control, CoreSet, Receiving, CoreName, Sides
<1>2. /\ v \in Used /\ live[side][n] = <<>> /\ removing = <<>>
      /\ kind' = kind /\ removing' = removing /\ sent' = sent
      /\ ReadLine(HeaderLine(side, n, v))
      /\ live' \in [Sides -> [Names -> Seq(Used)]] /\ live'[side][n] = <<v>>
      /\ origin' \in [Sides -> [Names -> {"none", "first", "again", "received"}]]
      /\ origin'[side][n] = next
      /\ \A s \in Sides, m \in Names : ~(s = side /\ m = n) =>
           live'[s][m] = live[s][m] /\ origin'[s][m] = origin[s][m]
  <2>1. SetValue(side, n, v) /\ WorkerTypes
    BY DEF CoreSet, WorkerInv
  <2> QED BY <1>1, <2>1, SetValueTypes
<1> HIDE DEF side
<1>3. /\ pc' = "inner" /\ UNCHANGED clientHeaders /\ lastHeader' = side
      /\ \A s \in Sides : s # side => SideMap(tx', s) = SideMap(tx, s)
      /\ SideMap(tx', side) = SideMap(tx, side)
      /\ tempHeaders' = g
  BY <1>1, <1>2, HeaderRead DEF Inv, WorkerInv, WorkerTypes
<1>4. WorkerTypes'
  BY <1>1, <1>2 DEF WorkerInv, WorkerTypes, Used, Phases
<1>5. Control'
  BY <1>1, <1>2, <1>3 DEF WorkerInv, Control, Receiving, side
<1>6. /\ Cell(side, n) /\ KeptApart(side, n) /\ KeptApart(side, n)' /\ ~Fresh(side, n)'
      /\ CoreName(side, n)'
  BY <1>1, <1>2 DEF WorkerInv, KeptApart, Receiving, Fresh, CoreName, side
<1>7. /\ Good(t) /\ HeldBack(t[n], was, <<>>, from, CountsReceived(side, n)) /\ v \in Values
      /\ SideMap(tx, side)[n] = NoHeader
  BY <1>2, <1>6, SidesGood, UsedAreValues DEF Cell, WorkerInv, WorkerTypes
<1>8. Empty \notin Used => v # Empty /\ (t[n].values # <<>> => t[n].values[1].value # Empty)
  BY <1>2, <1>6 DEF Cell, Holder, Stated
<1> HIDE DEF t, g, was, from, next, st
<1>9. /\ Elsewhere(g, t, n)
      /\ HeldBack(g[n], was, <<v>>, next, CountsReceived(side, n))
      /\ v # Empty /\ (t[n].values # <<>> => t[n].values[1].value # Empty) =>
           Stated(g[n].values, st)
  BY <1>1, <1>7, SetAside DEF g, next, st
<1>10. Cell(side, n)'
  <2>1. CountsReceived(side, n)' = CountsReceived(side, n)
    BY <1>1, <1>2 DEF CountsReceived, CoreName
  <2>2. Holder(side, n)' = g /\ Used' = Used
    BY <1>3, <1>6 DEF Holder, Used
  <2>3. StateOf(side, n)' = st
    BY <1>2 DEF StateOf, next, st
  <2>4. HeldBack(tempHeaders'[n], sent'[side][n], live'[side][n], origin'[side][n],
                 CountsReceived(side, n)')
    BY <1>2, <1>3, <1>9, <2>1 DEF was
  <2>5. Empty \notin Used' => Stated(Holder(side, n)[n].values', StateOf(side, n)')
    BY <1>8, <1>9, <2>2, <2>3
  <2>6. SideMap(tx', side)[n] = NoHeader
    BY <1>3, <1>7
  <2> QED BY <1>6, <2>4, <2>5, <2>6 DEF Cell
<1>11. ASSUME NEW s \in Sides, NEW m \in Names, ~(s = side /\ m = n)
       PROVE  Cell(s, m)'
  <2>1. /\ Receiving' <=> Receiving
        /\ Fresh(s, m)' => Fresh(s, m)
    BY <1>1, <1>2 DEF Receiving, Fresh, CoreName
  <2>2. /\ side # "resp" /\ Elsewhere(tempHeaders', tempHeaders, n)
    BY <1>3, <1>9 DEF t, side
  <2>3. /\ sent'[s][m] = sent[s][m] /\ live'[s][m] = live[s][m]
        /\ origin'[s][m] = origin[s][m]
    BY <1>2, <1>11
  <2>4. /\ removing' = <<s, m>> <=> removing = <<s, m>>
        /\ m \in replaced' <=> m \in replaced
        /\ kind' = kind
    BY <1>1, <1>2
  <2>5. /\ \A r \in Sides : r # side => SideMap(tx', r) = SideMap(tx, r)
        /\ Elsewhere(SideMap(tx', side), SideMap(tx, side), n)
    BY <1>3 DEF Elsewhere
  <2> QED BY <1>1, <1>11, <2>1, <2>2, <2>3, <2>4, <2>5, OthersStay
<1> QED BY <1>4, <1>5, <1>10, <1>11 DEF WorkerInv

\* Varnish itself removes what it received: that counts as received from then on.
LEMMA CoreUnsetKeeps ==
  ASSUME Inv, WorkerInv, NEW n \in Names, CoreUnset(n)
  PROVE  WorkerInv'
<1> DEFINE side == "req"
           t == tempHeaders
           was == sent[side][n]
           now == live[side][n]
           v == Head(now)
           g == Delete(Add(t, n, v, "Received"), n)
           h == SideMap(tx, side)
<1>1. /\ pc = "inner" /\ phase \in {"recv", "core"} /\ phase' = "core"
      /\ clientHeaders = TRUE /\ Receiving /\ origin[side][n] = "received"
      /\ CoreName(side, n) /\ n # HdrNameHost /\ side \in Sides
      /\ live[side][n] # <<>> /\ removing = <<>>
      /\ removing' = (IF Tail(live[side][n]) = <<>> THEN <<>> ELSE <<side, n>>)
      /\ replaced' = replaced \cup {n} /\ kind' = kind /\ sent' = sent /\ origin' = origin
  BY VarnishModifiedAssumption
     DEF WorkerInv, Control, CoreUnset, RemoveValue, Receiving, CoreName, Sides
<1>2. live' = [live EXCEPT ![side][n] = Tail(live[side][n])] /\ ReadLine(UnsetLine(side, n, v))
  BY DEF CoreUnset, RemoveValue, Log, UnsetLine
<1> HIDE DEF side
<1>3. v \in Used /\ Tail(now) \in Seq(Used)
  BY <1>1, HeadIsUsed DEF WorkerInv
<1> HIDE DEF v
<1>4. /\ pc' = "inner" /\ UNCHANGED <<clientHeaders, lastHeader>>
      /\ \A s \in Sides : s # side => SideMap(tx', s) = SideMap(tx, s)
      /\ SideMap(tx', side) = Delete(h, n)
      /\ tempHeaders' = g
  BY <1>1, <1>2, <1>3, UnsetRead DEF Inv, WorkerInv, WorkerTypes
<1>5. /\ Cell(side, n) /\ KeptApart(side, n) /\ KeptApart(side, n)' /\ ~Fresh(side, n)'
      /\ CoreName(side, n)'
  BY <1>1 DEF WorkerInv, KeptApart, Receiving, Fresh, CoreName, side
<1>6. /\ Good(t) /\ HeldBack(t[n], was, now, "received", CountsReceived(side, n))
      /\ h[n] = NoHeader /\ h \in HeadersType
  BY <1>1, <1>5, SidesGood DEF Cell, Good
<1>7. Empty \notin Used => v # Empty /\ (t[n].values # <<>> => t[n].values[1].value # Empty)
  BY <1>3, <1>5 DEF Cell, Holder, Stated
<1>8. was \in Seq(Values)
  <2>1. was \in Seq(Used) /\ Used \subseteq Values
    BY <1>1, UsedAreValues DEF WorkerInv, WorkerTypes
  <2> HIDE DEF was
  <2> QED BY <2>1
<1>9. live \in [Sides -> [Names -> Seq(Used)]]
  BY DEF WorkerInv, WorkerTypes
<1>10. SideMap(tx', side) = h
  BY <1>4, <1>6, DeleteNothing
<1>11. now # <<>>
  BY <1>1
<1>12. /\ live' \in [Sides -> [Names -> Seq(Used)]] /\ live'[side][n] = Tail(now)
       /\ \A s \in Sides, m \in Names : ~(s = side /\ m = n) => live'[s][m] = live[s][m]
  BY <1>1, <1>2, <1>3, <1>9, UpdatedAt
<1>13. removing' = IF Tail(now) = <<>> THEN <<>> ELSE <<side, n>>
  BY <1>1
<1> HIDE DEF t, was, now, h, g
<1>14. /\ Tail(now) = <<>>
       /\ Elsewhere(g, t, n)
       /\ HeldBack(g[n], was, <<>>, "received", was)
       /\ v # Empty /\ (t[n].values # <<>> => t[n].values[1].value # Empty) =>
            \A state : Stated(g[n].values, state)
  BY <1>1, <1>6, <1>8, <1>11, RemovedAside DEF g, v
<1>15. removing' = <<>>
  BY <1>13, <1>14
<1>16. WorkerTypes'
  BY <1>1, <1>12 DEF WorkerInv, WorkerTypes, Used, Phases
<1>17. Control'
  BY <1>1, <1>4, <1>15 DEF WorkerInv, Control, Receiving
<1>18. Cell(side, n)'
  <2>1. CountsReceived(side, n)' = was
    BY <1>1, <1>5 DEF CountsReceived, was
  <2>2. Holder(side, n)' = g /\ Used' = Used
    BY <1>4, <1>5 DEF Holder, Used
  <2>3. HeldBack(tempHeaders'[n], sent'[side][n], live'[side][n], origin'[side][n],
                 CountsReceived(side, n)')
    BY <1>1, <1>4, <1>12, <1>14, <2>1 DEF was
  <2>4. Empty \notin Used' => Stated(Holder(side, n)[n].values', StateOf(side, n)')
    BY <1>7, <1>14, <2>2
  <2>5. SideMap(tx', side)[n] = NoHeader
    BY <1>6, <1>10
  <2> QED BY <1>5, <2>3, <2>4, <2>5 DEF Cell
<1>19. ASSUME NEW s \in Sides, NEW m \in Names, ~(s = side /\ m = n)
       PROVE  Cell(s, m)'
  <2>1. /\ Receiving' <=> Receiving
        /\ Fresh(s, m)' => Fresh(s, m)
    BY <1>1 DEF Receiving, Fresh, CoreName
  <2>2. /\ side # "resp" /\ Elsewhere(tempHeaders', tempHeaders, n)
    BY <1>4, <1>14 DEF t, side
  <2>3. /\ sent'[s][m] = sent[s][m] /\ live'[s][m] = live[s][m]
        /\ origin'[s][m] = origin[s][m]
    BY <1>1, <1>12, <1>19
  <2>4. /\ removing' = <<s, m>> <=> removing = <<s, m>>
        /\ kind' = kind
    BY <1>1, <1>15
  <2>5. CoreName(s, m) => (m \in replaced' <=> m \in replaced)
    BY <1>1, <1>19 DEF CoreName, side
  <2>6. /\ \A r \in Sides : r # side => SideMap(tx', r) = SideMap(tx, r)
        /\ Elsewhere(SideMap(tx', side), SideMap(tx, side), n)
    BY <1>4, <1>10 DEF Elsewhere, h
  <2> QED BY <1>1, <1>19, <2>1, <2>2, <2>3, <2>4, <2>5, <2>6, OthersStay
<1> QED BY <1>16, <1>17, <1>18, <1>19 DEF WorkerInv

-----------------------------------------------------------------------------
(* The invariant, and what it says once the headers are settled *)

RoundTripInv == Inv /\ WorkerInv

LEMMA RoundTripInit == WriterInit => RoundTripInv
<1> SUFFICES ASSUME WriterInit PROVE RoundTripInv
  OBVIOUS
<1>1. /\ Init /\ kind \in {"client", "backend"} /\ phase = "start" /\ removing = <<>>
      /\ sent = [s \in Sides |-> [n \in Names |-> <<>>]] /\ live = sent
      /\ origin = [s \in Sides |-> [n \in Names |-> "none"]] /\ replaced = {}
  BY DEF WriterInit
<1>2. /\ tx.reqHeaders = NoHeaders /\ tx.respHeaders = NoHeaders
      /\ tempHeaders = NoHeaders /\ pc = "outer"
  BY <1>1 DEF Init, NewTransaction
<1>3. Inv
  BY <1>1, <1>2, InitType, InvGood, NoHeadersGood DEF Inv
<1>4. WorkerTypes
  BY <1>1 DEF WorkerTypes, Phases
<1>5. Control
  BY <1>1, <1>2 DEF Control, Receiving
<1>6. ASSUME NEW side \in Sides, NEW n \in Names
      PROVE  Cell(side, n)
  <2>1. ~KeptApart(side, n)
    BY <1>1 DEF KeptApart, Receiving
  <2>2. SideMap(tx, side)[n] = NoHeader /\ tempHeaders[n] = NoHeader
    BY <1>2 DEF SideMap, NoHeaders
  <2>3. Holder(side, n)[n] = NoHeader
    BY <2>1, <2>2 DEF Holder
  <2>4. sent[side][n] = <<>> /\ live[side][n] = <<>> /\ origin[side][n] = "none"
    BY <1>1
  <2>5. Shown(side, n) = <<>> /\ CountsReceived(side, n) = <<>>
    BY <1>1, <2>4 DEF Shown, CountsReceived
  <2> QED BY <2>1, <2>2, <2>3, <2>4, <2>5, NothingInPlace DEF Cell
<1> QED BY <1>3, <1>4, <1>5, <1>6 DEF RoundTripInv, WorkerInv

\* The parser reads what the worker logs.
LEMMA WriterReads ==
  ASSUME WorkerTypes, WriterNext
  PROVE  \E l \in Lines : ReadLine(l)
<1>1. CASE LogStart
  BY <1>1, WorkerLinesAreLines DEF LogStart, Log
<1>2. CASE LogBegin
  BY <1>2, WorkerLinesAreLines DEF LogBegin, Log
<1>3. CASE CallVCL
  BY <1>3, WorkerLinesAreLines DEF CallVCL, Log
<1>4. CASE LogStatus
  BY <1>4, WorkerLinesAreLines DEF LogStatus, Log
<1>5. CASE LogEnd
  BY <1>5, WorkerLinesAreLines DEF LogEnd, Log
<1>6. ASSUME NEW side \in Sides, NEW n \in Names, RemoveValue(side, n)
      PROVE  \E l \in Lines : ReadLine(l)
  <2>1. Head(live[side][n]) \in Used /\ kind \in {"client", "backend"}
    BY <1>6, HeadIsUsed DEF RemoveValue, WorkerTypes
  <2>2. ReadLine(UnsetLine(side, n, Head(live[side][n])))
    BY <1>6 DEF RemoveValue, Log, UnsetLine
  <2>3. UnsetLine(side, n, Head(live[side][n])) \in Lines
    BY <2>1, WorkerLinesAreLines
  <2> QED BY <2>2, <2>3
<1>7. ASSUME NEW side \in Sides, NEW n \in Names, NEW v \in SetValues, SetValue(side, n, v)
      PROVE  \E l \in Lines : ReadLine(l)
  <2>1. v \in Used /\ kind \in {"client", "backend"}
    BY DEF Used, WorkerTypes
  <2>2. ReadLine(HeaderLine(side, n, v))
    BY <1>7 DEF SetValue, Log, HeaderLine
  <2>3. HeaderLine(side, n, v) \in Lines
    BY <2>1, WorkerLinesAreLines
  <2> QED BY <2>2, <2>3
<1>8. ASSUME NEW side \in Sides, NEW n \in Names, NEW v \in ReceivedValues, Receive(side, n, v)
      PROVE  \E l \in Lines : ReadLine(l)
  <2>1. v \in Used /\ kind \in {"client", "backend"}
    BY DEF Used, WorkerTypes
  <2>2. ReadLine(HeaderLine(side, n, v))
    BY <1>8 DEF Receive, Log, HeaderLine
  <2>3. HeaderLine(side, n, v) \in Lines
    BY <2>1, WorkerLinesAreLines
  <2> QED BY <2>2, <2>3
<1>9. "req" \in Sides
  BY DEF Sides
<1> QED BY <1>1, <1>2, <1>3, <1>4, <1>5, <1>6, <1>7, <1>8, <1>9
        DEF WriterNext, CoreUnset, CoreSet, VCLUnset, VCLSet

LEMMA RoundTripStep ==
  ASSUME ~RepeatedCoreNames, ~VCLSetsStatus, RoundTripInv, [WriterNext]_allVars
  PROVE  RoundTripInv'
<1>1. Inv /\ WorkerInv /\ WorkerTypes
  BY DEF RoundTripInv, WorkerInv
<1>2. CASE WriterNext
  <2>1. PICK l \in Lines : ReadLine(l)
    BY <1>1, <1>2, WriterReads
  <2>2. TypeOK'
    BY <1>1, <2>1, NextType DEF Inv, Next
  <2>3. Good(tx'.reqHeaders) /\ Good(tx'.respHeaders) /\ Good(tempHeaders')
    BY <1>1, <2>1, ReadLineGood
  <2>4. Inv'
    BY <2>2, <2>3 DEF Inv, AllHeadersWellFormed, Good
  <2>5. CASE LogStart \/ LogBegin \/ CallVCL \/ LogStatus \/ LogEnd
    BY <1>1, <2>4, <2>5, StartKeeps, BeginKeeps, CallKeeps, StatusKeeps, EndKeeps
       DEF RoundTripInv
  <2>6. CASE \E n \in Names : CoreUnset(n) \/ \E v \in SetValues : CoreSet(n, v)
    BY <1>1, <2>4, <2>6, CoreUnsetKeeps, CoreSetKeeps DEF RoundTripInv
  <2>7. CASE \E n \in Names, side \in Sides, v \in ReceivedValues : Receive(side, n, v)
    BY <1>1, <2>4, <2>7, ReceiveKeeps DEF RoundTripInv
  <2>8. CASE \E n \in Names, side \in Sides :
                VCLUnset(side, n) \/ \E v \in SetValues : VCLSet(side, n, v)
    BY <1>1, <2>4, <2>8, VCLUnsetKeeps, VCLSetKeeps DEF RoundTripInv
  <2> QED BY <1>2, <2>5, <2>6, <2>7, <2>8 DEF WriterNext
<1>3. CASE UNCHANGED allVars
  <2>1. Inv'
    <3>1. UNCHANGED vars
      BY <1>3 DEF allVars
    <3>2. TypeOK'
      BY <1>1, <3>1, NextType DEF Inv
    <3>3. tx' = tx /\ tempHeaders' = tempHeaders
      BY <3>1 DEF vars
    <3>4. AllHeadersWellFormed'
      BY <1>1, <3>3 DEF Inv, AllHeadersWellFormed
    <3> QED BY <3>2, <3>4 DEF Inv
  <2>2. WorkerInv'
    <3>1. UNCHANGED <<pc, tx, clientHeaders, lastHeader, tempHeaders, kind, phase, removing,
                      sent, live, origin, replaced>>
      BY <1>3 DEF allVars, vars, writer, locals
    <3>2. WorkerTypes' /\ Control'
      BY <1>1, <3>1 DEF WorkerInv, WorkerTypes, Control, Receiving, Used
    <3>3. ASSUME NEW side \in Sides, NEW n \in Names
          PROVE  Cell(side, n)'
      <4>1. Cell(side, n)
        BY <1>1 DEF WorkerInv
      <4>2. (KeptApart(side, n)' <=> KeptApart(side, n)) /\ (Fresh(side, n)' => Fresh(side, n))
        BY <3>1 DEF KeptApart, CoreName, Receiving, Fresh
      <4> QED BY <3>1, <4>1, <4>2, CellStays
    <3> QED BY <3>2, <3>3 DEF WorkerInv
  <2> QED BY <2>1, <2>2 DEF RoundTripInv
<1> QED BY <1>2, <1>3

\* Once the headers are settled nothing is kept aside and nothing is being removed.
LEMMA SettledCell ==
  ASSUME RoundTripInv, Settled, NEW side \in Sides, NEW n \in Names
  PROVE  LET header == ParsedHeader(side, n)
         IN  /\ header \in Header /\ WellFormedValues(header.values)
             /\ Texts(Live(header.values)) = live[side][n]
             /\ origin[side][n] = "none" <=> header.values = <<>>
             /\ header.receivedValues = CountsReceived(side, n)
             /\ n = HdrNameHost /\ header.values # <<>> => Len(header.values) = 1
             /\ Empty \notin Used => Stated(header.values, StateOf(side, n))
<1> DEFINE header == ParsedHeader(side, n)
<1>1. Inv /\ Cell(side, n) /\ ~KeptApart(side, n) /\ removing = <<>>
  BY DEF RoundTripInv, WorkerInv, Settled, KeptApart, Receiving
<1>2. header = SideMap(tx, side)[n] /\ Holder(side, n) = SideMap(tx, side)
  BY <1>1 DEF ParsedHeader, SideMap, Holder
<1>3. Shown(side, n) = live[side][n]
  <2>1. removing # <<side, n>>
    BY <1>1
  <2> QED BY <2>1 DEF Shown
<1> HIDE DEF header
<1>4. header \in Header /\ WellFormedValues(header.values)
  BY <1>1, <1>2, SidesGood, GoodHeader
<1>5. InPlace(header, live[side][n], origin[side][n], CountsReceived(side, n), n)
  BY <1>1, <1>2, <1>3 DEF Cell
<1>6. Empty \notin Used => Stated(header.values, StateOf(side, n))
  BY <1>1, <1>2 DEF Cell
<1> QED BY <1>4, <1>5, <1>6 DEF InPlace, header

LEMMA EffectiveWhenSettled == RoundTripInv => EffectiveHeaders
<1> SUFFICES ASSUME RoundTripInv, Settled, NEW side \in Sides, NEW n \in Names
             PROVE  Texts(Live(ParsedHeader(side, n).values)) = live[side][n]
  BY DEF EffectiveHeaders
<1> QED BY SettledCell

LEMMA ReceivedWhenSettled == RoundTripInv => ReceivedAreSent
<1> SUFFICES ASSUME RoundTripInv, Settled, NEW side \in Sides, NEW n \in Names
             PROVE  ParsedHeader(side, n).receivedValues =
                      IF CoreName(side, n) /\ n \notin replaced THEN <<>> ELSE sent[side][n]
  BY DEF ReceivedAreSent
<1> QED BY SettledCell DEF CountsReceived

LEMMA OriginWhenSettled ==
  ASSUME Empty \notin Used
  PROVE  RoundTripInv => StatesTellOrigin
<1> SUFFICES ASSUME RoundTripInv, Settled, NEW side \in Sides, NEW n \in Names,
                    NEW i \in DOMAIN live[side][n]
             PROVE  Live(ParsedHeader(side, n).values)[i].state =
                      CASE origin[side][n] = "first" -> "Added"
                        [] origin[side][n] = "again" -> "Modified"
                        [] origin[side][n] = "received" ->
                             IF CoreName(side, n) THEN "Added" ELSE "Received"
  BY DEF StatesTellOrigin
<1> DEFINE header == ParsedHeader(side, n)
           shown == Live(header.values)
<1>1. /\ header \in Header
      /\ Texts(shown) = live[side][n]
      /\ origin[side][n] = "none" <=> header.values = <<>>
      /\ Stated(header.values, StateOf(side, n))
  BY SettledCell
<1>2. DOMAIN live[side][n] = DOMAIN shown
  BY <1>1 DEF Texts
<1>3. shown[i].state = StateOf(side, n)
  BY <1>1, <1>2 DEF Stated
<1>4. header.values # <<>>
  <2> HIDE DEF header
  <2>1. header.values = <<>> => live[side][n] = <<>>
    BY <1>1, LiveOfNone, TextsOfNone
  <2>2. live[side][n] # <<>>
    <3>1. DOMAIN <<>> = {}
      OBVIOUS
    <3> QED BY <3>1
  <2> QED BY <2>1, <2>2
<1>5. origin[side][n] \in {"first", "again", "received"}
  BY <1>1, <1>4 DEF RoundTripInv, WorkerInv, WorkerTypes
<1> HIDE DEF header
<1> QED BY <1>3, <1>5 DEF StateOf, header

\* The only value of a Host that Varnish has is the first one the map holds.
LEMMA HostWhenSettled ==
  ASSUME RoundTripInv, Settled
  PROVE  /\ live["req"][HdrNameHost] # <<>> =>
              NewHTTPRequest(FALSE).host = live["req"][HdrNameHost][1]
         /\ sent["req"][HdrNameHost] # <<>> =>
              NewHTTPRequest(TRUE).host = sent["req"][HdrNameHost][1]
<1> DEFINE header == ParsedHeader("req", HdrNameHost)
           values == header.values
           now == live["req"][HdrNameHost]
           was == sent["req"][HdrNameHost]
<1>1. /\ "req" \in Sides /\ HdrNameHost \in Names /\ ~CoreName("req", HdrNameHost)
      /\ header = tx.reqHeaders[HdrNameHost]
  BY SpellingsAssumption, VarnishModifiedAssumption DEF Sides, CoreName, ParsedHeader
<1>2. /\ header \in Header /\ WellFormedValues(values)
      /\ Texts(Live(values)) = now
      /\ header.receivedValues = was
      /\ values # <<>> => Len(values) = 1
  BY <1>1, SettledCell DEF CountsReceived
<1>3. values \in Seq(HdrValue)
  BY <1>2 DEF Header
<1>4. now \in Seq(Used) /\ was \in Seq(Used)
  BY <1>1 DEF RoundTripInv, WorkerInv, WorkerTypes
<1> HIDE DEF header, values, now, was
<1>5. ASSUME now # <<>>
      PROVE  FirstValue(header, FALSE) = now[1]
  <2>1. values # <<>>
    BY <1>2, <1>5, LiveOfNone, TextsOfNone
  <2>2. Len(values) = 1
    BY <1>2, <2>1
  <2>3. values[1].state # "Deleted"
    <3> SUFFICES ASSUME values[1].state = "Deleted"
                 PROVE  FALSE
      OBVIOUS
    <3> DEFINE d == NDeleted(values)
    <3>1. /\ d \in 0..1 /\ Len(Live(values)) = 1 - d /\ Live(values) \in Seq(HdrValue)
          /\ \A j \in 1..1 : values[j].state = "Deleted" <=> j <= d
      BY <1>2, <1>3, <2>2, LiveIsRest
    <3> HIDE DEF d
    <3>2. 1 <= d
      BY <3>1
    <3>3. Len(Live(values)) = 0
      BY <3>1, <3>2
    <3>4. Live(values) = <<>>
      BY <3>1, <3>3, EmptySeq
    <3> QED BY <1>2, <1>5, <3>4, TextsOfNone
  <2>4. \A j \in 1..Len(values) : values[j].state # "Deleted"
    <3>1. \A j \in 1..1 : j = 1
      OBVIOUS
    <3> QED BY <2>2, <2>3, <3>1
  <2>5. Texts(values) = now
    BY <1>2, <1>3, <2>4, AllLive
  <2>6. Head(now) = now[1]
    BY <1>4, <1>5, HeadTailProperties
  <2> QED BY <1>5, <2>5, <2>6 DEF FirstValue, values
<1>6. ASSUME was # <<>>
      PROVE  FirstValue(header, TRUE) = was[1]
  <2>1. Head(was) = was[1]
    BY <1>4, <1>6, HeadTailProperties
  <2> QED BY <1>2, <1>6, <2>1 DEF FirstValue
<1>7. \A received \in BOOLEAN : NewHTTPRequest(received).host = FirstValue(header, received)
  BY <1>1 DEF NewHTTPRequest
<1> QED BY <1>5, <1>6, <1>7 DEF now, was

LEMMA ReplayedWhenSettled == RoundTripInv => RequestIsReplayed
<1> SUFFICES ASSUME RoundTripInv, Settled
             PROVE  /\ live["req"][HdrNameHost] # <<>> =>
                         NewHTTPRequest(FALSE).host = live["req"][HdrNameHost][1]
                    /\ sent["req"][HdrNameHost] # <<>> =>
                         NewHTTPRequest(TRUE).host = sent["req"][HdrNameHost][1]
                    /\ \A n \in Names \ {HdrNameHost} :
                         /\ NewHTTPRequest(FALSE).headers[n] = live["req"][n]
                         /\ (CoreName("req", n) => n \in replaced) =>
                              NewHTTPRequest(TRUE).headers[n] = sent["req"][n]
  BY DEF RequestIsReplayed
<1>1. ASSUME NEW n \in Names \ {HdrNameHost}
      PROVE  /\ NewHTTPRequest(FALSE).headers[n] = live["req"][n]
             /\ (CoreName("req", n) => n \in replaced) =>
                  NewHTTPRequest(TRUE).headers[n] = sent["req"][n]
  <2> DEFINE header == ParsedHeader("req", n)
  <2>1. "req" \in Sides /\ n \in Names /\ header = tx.reqHeaders[n]
    BY DEF Sides, ParsedHeader
  <2>2. /\ header \in Header /\ WellFormedValues(header.values)
        /\ Texts(Live(header.values)) = live["req"][n]
        /\ header.receivedValues = CountsReceived("req", n)
    BY <2>1, SettledCell
  <2> HIDE DEF header
  <2>3. NotDeleted(header.values) = live["req"][n]
    BY <2>2, NotDeletedAreLive DEF Header
  <2>4. /\ NewHTTPRequest(FALSE).headers[n] = NotDeleted(header.values)
        /\ NewHTTPRequest(TRUE).headers[n] = header.receivedValues
    BY <2>1 DEF NewHTTPRequest
  <2> QED BY <2>2, <2>3, <2>4 DEF CountsReceived
<1> QED BY <1>1, HostWhenSettled

-----------------------------------------------------------------------------
\* The headers the parser shows after VCL are those the worker has, whatever was received,
\* changed by Varnish's own code, unset and set again, when no received header of the
\* kind Varnish changes is repeated and VCL does not set the status of a response
\* (parser.go, 104-124, 141-171, 353-399).
THEOREM EffectiveHeadersCorrect ==
  ASSUME ~RepeatedCoreNames, ~VCLSetsStatus
  PROVE  WriterSpec => []EffectiveHeaders
<1>1. RoundTripInv /\ [WriterNext]_allVars => RoundTripInv'
  BY RoundTripStep
<1> QED BY <1>1, RoundTripInit, EffectiveWhenSettled, PTL DEF WriterSpec

\* The received headers the parser keeps are those that were sent, also when Varnish's own
\* code removed or replaced one before VCL ran (parser.go, 141-156, 353-368).
THEOREM ReceivedAreSentCorrect ==
  ASSUME ~RepeatedCoreNames, ~VCLSetsStatus
  PROVE  WriterSpec => []ReceivedAreSent
<1>1. RoundTripInv /\ [WriterNext]_allVars => RoundTripInv'
  BY RoundTripStep
<1> QED BY <1>1, RoundTripInit, ReceivedWhenSettled, PTL DEF WriterSpec

\* The request that is built to be sent again is the one that was received, or the one
\* Varnish had after VCL (httpmodel.go, 26-76).
THEOREM RequestIsReplayedCorrect ==
  ASSUME ~RepeatedCoreNames, ~VCLSetsStatus
  PROVE  WriterSpec => []RequestIsReplayed
<1>1. RoundTripInv /\ [WriterNext]_allVars => RoundTripInv'
  BY RoundTripStep
<1> QED BY <1>1, RoundTripInit, ReplayedWhenSettled, PTL DEF WriterSpec

\* The state of a value tells where it comes from, when no value is empty: a header whose
\* first value is empty counts as one that is not there (parser.go, 389-399).
THEOREM StatesTellOriginCorrect ==
  ASSUME ~RepeatedCoreNames, ~VCLSetsStatus, Empty \notin ReceivedValues \cup SetValues
  PROVE  WriterSpec => []StatesTellOrigin
<1>1. RoundTripInv /\ [WriterNext]_allVars => RoundTripInv'
  BY RoundTripStep
<1>2. RoundTripInv => StatesTellOrigin
  BY OriginWhenSettled DEF Used
<1> QED BY <1>1, <1>2, RoundTripInit, PTL DEF WriterSpec
=============================================================================
